---- MODULE Spec2Model ----
(***************************************************************************)
(* Farning-Bot (src/main.py): moderation and course provisioning commands  *)
(* of a Discord bot, modelled as a state machine.                          *)
(*                                                                         *)
(* Strings are sequences of one-character strings.  An Optional[str] that  *)
(* is None is the value None below.  The Directory (roles, channels,       *)
(* members, messages of the guild) is the platform's state; every command  *)
(* invocation is a coroutine whose position is the remote call it awaits.  *)
(* One step of the model = the awaited call takes effect at the platform   *)
(* and the coroutine runs on to its next awaited remote call.              *)
(***************************************************************************)
EXTENDS Integers, Sequences, FiniteSets, TLC

(***************************************************************************)
(* Characters and the str methods the source uses.                         *)
(***************************************************************************)
UpperChars == <<"A","B","C","D","E","F","G","H","I","J","K","L","M",
                "N","O","P","Q","R","S","T","U","V","W","X","Y","Z">>
LowerChars == <<"a","b","c","d","e","f","g","h","i","j","k","l","m",
                "n","o","p","q","r","s","t","u","v","w","x","y","z">>
DigitChars == <<"0","1","2","3","4","5","6","7","8","9">>

Range(s) == {s[i] : i \in DOMAIN s}

IsSpace(c) == c \in {" ", "\t", "\n"}
IsDigit(c) == c \in Range(DigitChars)
IsLowerAlpha(c) == c \in Range(LowerChars)

\* str.lower() / str.casefold() of one character (the alphabet of the model
\* is ASCII, where the two agree).
LowerChar(c) ==
    IF \E i \in DOMAIN UpperChars : UpperChars[i] = c
    THEN LowerChars[CHOOSE i \in DOMAIN UpperChars : UpperChars[i] = c]
    ELSE c

Lower(s) == [i \in DOMAIN s |-> LowerChar(s[i])]

\* str.strip()
RECURSIVE LStrip(_)
LStrip(s) == IF s # <<>> /\ IsSpace(Head(s)) THEN LStrip(Tail(s)) ELSE s

RECURSIVE RStrip(_)
RStrip(s) ==
    IF s # <<>> /\ IsSpace(s[Len(s)]) THEN RStrip(SubSeq(s, 1, Len(s) - 1)) ELSE s

Strip(s) == RStrip(LStrip(s))

\* str.split() without argument: the maximal runs of non-whitespace, in order
RECURSIVE SplitWords(_, _, _)
SplitWords(s, cur, acc) ==
    IF s = <<>>
    THEN IF cur = <<>> THEN acc ELSE Append(acc, cur)
    ELSE IF IsSpace(Head(s))
         THEN SplitWords(Tail(s), <<>>, IF cur = <<>> THEN acc ELSE Append(acc, cur))
         ELSE SplitWords(Tail(s), Append(cur, Head(s)), acc)

\* " ".join(words)
RECURSIVE JoinSpace(_)
JoinSpace(words) ==
    IF words = <<>> THEN <<>>
    ELSE IF Len(words) = 1 THEN words[1]
    ELSE words[1] \o <<" ">> \o JoinSpace(Tail(words))

\* int(digits)
DigitVal(c) == (CHOOSE i \in DOMAIN DigitChars : DigitChars[i] = c) - 1

RECURSIVE ToInt(_)
ToInt(ds) ==
    IF ds = <<>> THEN 0
    ELSE 10 * ToInt(SubSeq(ds, 1, Len(ds) - 1)) + DigitVal(ds[Len(ds)])

\* str(n) for n >= 0
RECURSIVE ToStr(_)
ToStr(n) ==
    IF n < 10 THEN <<DigitChars[n + 1]>>
    ELSE Append(ToStr(n \div 10), DigitChars[(n % 10) + 1])

\* Optional[str] = None
None == <<"None">>

(***************************************************************************)
(* Pure helpers of the source.                                             *)
(***************************************************************************)
MAX_TIMEOUT_SECONDS == 60 * 60 * 24 * 28

TIME_MULTIPLIERS == [u \in {"s", "m", "h", "d"} |->
    CASE u = "s" -> 1 [] u = "m" -> 60 [] u = "h" -> 3600 [] u = "d" -> 86400]

normalize_course_name(name) == JoinSpace(SplitWords(Strip(name), <<>>, <<>>))

SlugMax == 90

\* the slug is not cut to 90 characters
slugify_uncut(name) ==
    LET slug == [i \in DOMAIN Strip(name) |->
                    IF IsLowerAlpha(LowerChar(Strip(name)[i])) \/ IsDigit(Strip(name)[i])
                    THEN LowerChar(Strip(name)[i]) ELSE "-"]
    IN  IF slug = <<>> THEN <<"k", "u", "r", "s">> ELSE slug

slugify(name) ==
    LET slug  == [i \in DOMAIN Strip(name) |->
                    IF Lower(Strip(name))[i] = " " THEN "-" ELSE Lower(Strip(name))[i]]
        clean == [i \in DOMAIN slug |->
                    IF IsLowerAlpha(slug[i]) \/ IsDigit(slug[i]) \/ slug[i] = "-"
                    THEN slug[i] ELSE "-"]
        cut   == SubSeq(clean, 1, IF Len(clean) < SlugMax THEN Len(clean) ELSE SlugMax)
    IN  IF cut = <<>> THEN <<"k", "u", "r", "s">> ELSE cut

\* a letter that is no unit counts as minutes
parse_duration_lenient(duration) ==
    LET cleaned == Lower(Strip(duration))
        n       == Len(cleaned)
        allDigits(k) == k >= 1 /\ \A i \in 1..k : IsDigit(cleaned[i])
    IN  IF n >= 1 /\ allDigits(n)
        THEN ToInt(cleaned) * 60
        ELSE IF n >= 2 /\ allDigits(n - 1) /\ IsLowerAlpha(cleaned[n])
        THEN ToInt(SubSeq(cleaned, 1, n - 1)) *
                (IF cleaned[n] \in DOMAIN TIME_MULTIPLIERS
                 THEN TIME_MULTIPLIERS[cleaned[n]] ELSE 60)
        ELSE -1

\* re.fullmatch(r"(\d+)([smhd])?", cleaned); None is modelled as -1
parse_duration(duration) ==
    LET cleaned == Lower(Strip(duration))
        n       == Len(cleaned)
        allDigits(k) == k >= 1 /\ \A i \in 1..k : IsDigit(cleaned[i])
    IN  IF n >= 1 /\ allDigits(n)
        THEN ToInt(cleaned) * TIME_MULTIPLIERS["m"]
        ELSE IF n >= 2 /\ allDigits(n - 1) /\ cleaned[n] \in DOMAIN TIME_MULTIPLIERS
        THEN ToInt(SubSeq(cleaned, 1, n - 1)) * TIME_MULTIPLIERS[cleaned[n]]
        ELSE -1

\* MENTION_PATTERN.finditer(raw): the ids of the <@id> / <@!id> tokens
MentionIds(raw) ==
    {ToInt(SubSeq(raw, i, j)) : <<i, j>> \in
        {p \in (DOMAIN raw) \X (DOMAIN raw) :
            /\ p[1] <= p[2]
            /\ \A k \in p[1]..p[2] : IsDigit(raw[k])
            /\ p[2] < Len(raw) /\ raw[p[2] + 1] = ">"
            /\ \/ p[1] >= 3 /\ raw[p[1] - 1] = "@" /\ raw[p[1] - 2] = "<"
               \/ p[1] >= 4 /\ raw[p[1] - 1] = "!" /\ raw[p[1] - 2] = "@"
                            /\ raw[p[1] - 3] = "<"}}

\* re.split(r"[,\s]+", raw) chunks with chunk.isdigit()
IsSep(c) == c = "," \/ IsSpace(c)

NumericChunkIds(raw) ==
    {ToInt(SubSeq(raw, i, j)) : <<i, j>> \in
        {p \in (DOMAIN raw) \X (DOMAIN raw) :
            /\ p[1] <= p[2]
            /\ \A k \in p[1]..p[2] : IsDigit(raw[k])
            /\ p[1] = 1 \/ IsSep(raw[p[1] - 1])
            /\ p[2] = Len(raw) \/ IsSep(raw[p[2] + 1])}}

\* the bare numeric tokens are ignored
extract_member_ids_mentions(raw) == MentionIds(raw)

extract_member_ids(raw) == MentionIds(raw) \cup NumericChunkIds(raw)


\* int(cleaned, 16) of lower-case hex digits
HexChars == <<"0","1","2","3","4","5","6","7","8","9","a","b","c","d","e","f">>

IsHex(c) == c \in Range(HexChars)

HexVal(c) == (CHOOSE i \in DOMAIN HexChars : HexChars[i] = c) - 1

RECURSIVE HexToInt(_)
HexToInt(hs) ==
    IF hs = <<>> THEN 0
    ELSE 16 * HexToInt(SubSeq(hs, 1, Len(hs) - 1)) + HexVal(hs[Len(hs)])

\* discord.Color: its value; ok = FALSE with the text of the ValueError
Color(value) == [value |-> value, ok |-> TRUE, error |-> ""]

ValueError(text) == [value |-> 0, ok |-> FALSE, error |-> text]

\* the value of discord.Color.blurple(), 0x5865F2
blurple == 5793266

\* the three digits are padded with zeros, not doubled
parse_embed_color_padded(raw) ==
    LET stripped == Lower(Strip(raw))
        cleaned == IF stripped # <<>> /\ Head(stripped) = "#" THEN Tail(stripped)
                   ELSE stripped
        six == IF Len(cleaned) = 3 THEN <<"0", "0", "0">> \o cleaned ELSE cleaned
        absent == raw = None \/ raw = <<>>
        error == IF absent THEN ""
                 ELSE IF Len(cleaned) \notin {3, 6}
                 THEN "Hexfarbe muss 3 oder 6 Zeichen lang sein."
                 ELSE IF \E i \in DOMAIN six : ~IsHex(six[i])
                 THEN "Hexfarbe enthaelt ungueltige Zeichen."
                 ELSE ""
    IN  IF error # "" THEN ValueError(error)
        ELSE Color(IF absent THEN blurple ELSE HexToInt(six))

parse_embed_color(raw) ==
    LET stripped == Lower(Strip(raw))
        cleaned == IF stripped # <<>> /\ Head(stripped) = "#" THEN Tail(stripped)
                   ELSE stripped
        six == IF Len(cleaned) = 3
               THEN [i \in 1..6 |-> cleaned[(i + 1) \div 2]] ELSE cleaned
        absent == raw = None \/ raw = <<>>
        error == IF absent THEN ""
                 ELSE IF Len(cleaned) \notin {3, 6}
                 THEN "Hexfarbe muss 3 oder 6 Zeichen lang sein."
                 ELSE IF \E i \in DOMAIN six : ~IsHex(six[i])
                 THEN "Hexfarbe enthaelt ungueltige Zeichen."
                 ELSE ""
    IN  IF error # "" THEN ValueError(error)
        ELSE Color(IF absent THEN blurple ELSE HexToInt(six))

(***************************************************************************)
(* Inputs of the model: callers, configurations, command arguments.        *)
(***************************************************************************)
\* The server has a moderator role (id 101) and a teacher role (id 102).
\* guild.get_channel: 201 is a CategoryChannel, 202 a TextChannel
CategoryChannels == {201}
OtherChannels == {202}

\* interaction.user: a discord.Member with guild_permissions and roles, or a
\* plain discord.User (member = FALSE)
Callers == {
    [id |-> 11, name |-> <<"a">>, member |-> TRUE, administrator |-> TRUE,
     manage_guild |-> FALSE, moderate_members |-> FALSE, roles |-> {}],
    [id |-> 12, name |-> <<"m">>, member |-> TRUE, administrator |-> FALSE,
     manage_guild |-> FALSE, moderate_members |-> TRUE, roles |-> {}],
    [id |-> 13, name |-> <<"t">>, member |-> TRUE, administrator |-> FALSE,
     manage_guild |-> FALSE, moderate_members |-> FALSE,
     roles |-> {102}],
    [id |-> 15, name |-> <<"u">>, member |-> FALSE, administrator |-> FALSE,
     manage_guild |-> FALSE, moderate_members |-> FALSE, roles |-> {}]}

\* an interaction: its user, and whether interaction.guild is a guild (it is
\* None in a direct message, and for a guild missing from the cache)
Interactions ==
    {[user |-> u, guild |-> TRUE] : u \in {c \in Callers : c.member}}
    \cup {[user |-> u, guild |-> FALSE] : u \in {c \in Callers : c.id \in {11, 15}}}

\* MODERATOR_ROLE_ID, TEACHER_ROLE_ID, KURS_CATEGORY_ID as read at start-up
Configs == {
    [MODERATOR_ROLE_ID |-> 101, TEACHER_ROLE_ID |-> 102, KURS_CATEGORY_ID |-> 201],
    [MODERATOR_ROLE_ID |-> 101, TEACHER_ROLE_ID |-> 0, KURS_CATEGORY_ID |-> 0],
    [MODERATOR_ROLE_ID |-> 0, TEACHER_ROLE_ID |-> 102, KURS_CATEGORY_ID |-> 202]}

\* member ids: 1 and 2 are in the guild at the start, 3 never is
Members == {1, 2}
MemberIds == {1, 2, 3}

Reasons == {None, <<>>, <<"o", "k">>}

Durations == {<<"2", "8", "d">>, <<"2", "9", "d">>, <<" ", "1", "S">>,
              <<"0", "h">>, <<"0">>, <<"1", "w">>}

RawNames == {<<" ", "m", "A", " ">>, <<"\t", " ">>, <<"B", " ", " ", "!">>}

Selectors == {<<"<", "@", "1", ">", " ", "1", ",", "2">>,
              <<"3", "\n", "<", "@", "!", "2", ">">>, <<"x">>}

\* messages in the invoking channel at the start
MaxMsgs == 2
\* command invocations per behaviour
MaxInvocations == 1
\* enrollment commands per behaviour of SpecEnroll
MaxRuns == 2

\* the interactions that can be in progress at once
Procs == {1, 2}

(***************************************************************************)
(* State.                                                                  *)
(***************************************************************************)
VARIABLES
    cfg,            \* the configuration constants of lines 40-43
    roles,          \* guild.roles: records [id, name, mentionable]
    nextRoleId,     \* id the platform gives the next created role
    channels,       \* text channels created: [name, category, overwrites]
    guildMembers,   \* ids of the members of the guild
    cached,         \* ids guild.get_member finds in the local cache
    memberRoles,    \* member id -> ids of the course roles held
    timedOut,       \* member id -> seconds of the timeout applied last (0: none)
    banned,         \* ids banned from the guild
    protected,      \* members above the bot in the role hierarchy
    msgs,           \* number of messages in the invoking channel
    inv,            \* per interaction: the command coroutine
    started,        \* number of invocations dispatched so far
    limit,          \* number of invocations the behaviour dispatches at most
    last,           \* the enrollment command that completed last
    probe           \* a helper applied to an input on its own: [fn, arg, res]

vars == <<cfg, roles, nextRoleId, channels, guildMembers, cached, memberRoles,
          timedOut, banned, protected, msgs, inv, started, limit, last, probe>>

directory == <<roles, nextRoleId, channels, guildMembers, cached, memberRoles,
               timedOut, banned, msgs>>

\* what no command changes
fixed == <<cfg, limit, probe>>

NoText == ""

\* one call of the coroutine: its operation, arguments and result
Ev(op, text, id, n, name, reason, result) ==
    [op |-> op, text |-> text, id |-> id, n |-> n, name |-> name,
     reason |-> reason, result |-> result]

Idle ==
    [cmd |-> "idle", pc |-> "idle", caller |-> 0, guild |-> TRUE, reason |-> None,
     target |-> 0, dauer |-> <<>>, seconds |-> 0, anzahl |-> 0, textchan |-> TRUE,
     name |-> <<>>, kurs_name |-> <<>>, members |-> <<>>, ids |-> <<>>, i |-> 0,
     resolved |-> <<>>, kurs_role |-> 0, category |-> 0, overwrites |-> {},
     updated |-> <<>>, rop |-> "", msg |-> NoText, msgn |-> 0, exc |-> "",
     lookup |-> {}, clean |-> TRUE, repeat |-> FALSE, log |-> <<>>,
     channel |-> TRUE, title |-> <<>>, description |-> <<>>, color_hex |-> None,
     text |-> <<>>]

NoLast == [cmd |-> "idle", kurs_name |-> <<>>, members |-> <<>>, quiet |-> FALSE]

NoProbe == [fn |-> "", arg |-> <<>>, res |-> <<>>]

\* the guild before the first command
Guild ==
    /\ roles = {[id |-> 100, name |-> <<"@">>, mentionable |-> FALSE],
                [id |-> 101, name |-> <<"M", "o", "d">>, mentionable |-> FALSE],
                [id |-> 102, name |-> <<"T">>, mentionable |-> FALSE],
                [id |-> 1, name |-> <<"M", "a">>, mentionable |-> TRUE]}
    /\ nextRoleId = 2
    /\ channels = {}
    /\ guildMembers = Members
    /\ cached = {1}
    /\ memberRoles = [m \in Members |-> IF m = 1 THEN {1} ELSE {}]
    /\ timedOut = [m \in Members |-> 0]
    /\ banned = {}
    /\ protected \in SUBSET Members
    /\ msgs = MaxMsgs
    /\ inv = [p \in Procs |-> Idle]
    /\ started = 0
    /\ last = NoLast

Init ==
    /\ cfg \in Configs
    /\ limit = MaxInvocations
    /\ probe = NoProbe
    /\ Guild

InitEnroll ==
    /\ cfg = CHOOSE c \in Configs : c.TEACHER_ROLE_ID # 0 /\ c.MODERATOR_ROLE_ID # 0
    /\ limit = MaxRuns
    /\ probe = NoProbe
    /\ Guild

CallerOf(id) == CHOOSE c \in Callers : c.id = id

(***************************************************************************)
(* Authorization (lines 88-140).                                           *)
(***************************************************************************)
member_has_role(member, role_id) ==
    role_id # 0 /\ \E r \in member.roles : r = role_id

\* only the first configured role is looked at
member_has_any_role_first(member, role_ids) ==
    Len(role_ids) > 0 /\ member_has_role(member, role_ids[1])

member_has_any_role(member, role_ids) ==
    \E i \in DOMAIN role_ids : role_ids[i] # 0 /\ member_has_role(member, role_ids[i])

\* every guild member passes
require_moderator_any_member(user, c) == user.member

\* the permission test of the course staff, without moderate_members
require_moderator_no_moderate(user, c) ==
    /\ user.member
    /\ \/ user.administrator \/ user.manage_guild
       \/ member_has_role(user, c.MODERATOR_ROLE_ID)

\* the predicate of _require_moderator: TRUE, or CheckFailure (FALSE)
require_moderator(user, c) ==
    /\ user.member
    /\ \/ user.administrator \/ user.manage_guild \/ user.moderate_members
       \/ member_has_role(user, c.MODERATOR_ROLE_ID)

\* the predicate of _require_course_staff
require_course_staff(user, c) ==
    /\ user.member
    /\ \/ user.administrator \/ user.manage_guild
       \/ member_has_any_role(user, <<c.MODERATOR_ROLE_ID, c.TEACHER_ROLE_ID>>)

\* the reason is appended whether or not one was given
format_reason_always(user, reason) ==
    <<"Aktion von ">> \o user.name \o <<" (">> \o ToStr(user.id) \o <<"): ">>
        \o (IF reason = None THEN <<>> ELSE reason)

\* _format_reason: f"Aktion von {user} ({user.id})" [+ f": {reason}"]
format_reason(user, reason) ==
    LET base == <<"Aktion von ">> \o user.name \o <<" (">> \o ToStr(user.id) \o <<")">>
    IN  IF reason # None /\ reason # <<>> THEN base \o <<": ">> \o reason ELSE base

(***************************************************************************)
(* Coroutine bookkeeping.                                                  *)
(***************************************************************************)
\* a new interaction can be dispatched to p
Free(p) == inv[p].pc = "idle" /\ started < limit

Logged(rec, ev) == [rec EXCEPT !.log = Append(@, ev)]

\* the exception leaves the handler: the command tree logs it, nothing is sent
Raise(rec, exc) == [rec EXCEPT !.pc = "done", !.exc = exc]

\* the interaction ia is dispatched to the handler of cmd
Begin(cmd, ia) ==
    [Idle EXCEPT !.cmd = cmd, !.pc = "run", !.caller = ia.user.id, !.guild = ia.guild]

\* the check of the command raised CheckFailure: the handler is not called
Denied(cmd, ia) == Raise(Begin(cmd, ia), "CheckFailure")

\* the text goes out as a follow-up, whatever was sent before
SendAsFollowUp(rec, text) ==
    [rec EXCEPT !.pc = "reply", !.rop = "followup.send", !.msg = text]

\* await interaction.response.send_message(text); return
Send(rec, text) ==
    [rec EXCEPT !.pc = "reply", !.rop = "send_message", !.msg = text]

\* await interaction.followup.send(text); return
FollowUp(rec, text, n) ==
    [rec EXCEPT !.pc = "reply", !.rop = "followup.send", !.msg = text, !.msgn = n]

\* await interaction.response.defer(ephemeral=True)
Defer(rec) == [rec EXCEPT !.pc = "defer"]

DeferEv == Ev("defer", NoText, 0, 0, <<>>, None, "ok")

\* a command in progress sees the Directory change under it
Disturbed(rec) ==
    IF rec.pc = "idle" THEN rec ELSE [rec EXCEPT !.repeat = FALSE, !.clean = FALSE]

\* p moves on without changing the Directory
Set(p, rec) ==
    /\ inv' = [inv EXCEPT ![p] = rec]
    /\ last' = last

\* p moves on and the Directory changed (changed = TRUE): every other
\* command now runs against a changed Directory
SetDir(p, rec, changed) ==
    /\ inv' = [q \in Procs |->
                IF q = p THEN rec
                ELSE IF changed THEN Disturbed(inv[q]) ELSE inv[q]]
    /\ last' = IF changed THEN [last EXCEPT !.quiet = FALSE] ELSE last

(***************************************************************************)
(* /timeout (lines 263-298).                                               *)
(***************************************************************************)
\* a ceiling of 31 days
exceeds_ceiling_month(seconds) == seconds > 60 * 60 * 24 * 31

exceeds_ceiling(seconds) == seconds > MAX_TIMEOUT_SECONDS

\* only a duration that does not parse is turned away
not_seconds_none(seconds) == seconds = -1

\* `if not seconds` at line 277: None, and 0 as well
not_seconds(seconds) == seconds = -1 \/ seconds = 0

InvokeTimeout(p) ==
    /\ Free(p)
    /\ \E ia \in Interactions :
        IF ~require_moderator(ia.user, cfg)
        THEN Set(p, Denied("timeout", ia))
        ELSE
        \E member \in guildMembers, dauer \in Durations, reason \in Reasons :
        LET rec == [Begin("timeout", ia) EXCEPT !.target = member, !.dauer = dauer,
                                               !.reason = reason]
            seconds == parse_duration(dauer)
        IN  Set(p, IF not_seconds(seconds)
                   THEN Send(rec, "Bitte verwende ein gueltiges Format (z.B. 30m, 2h, 1d).")
                   ELSE IF exceeds_ceiling(seconds)
                   THEN Send(rec, "Timeouts sind maximal 28 Tage lang moeglich.")
                   ELSE [rec EXCEPT !.pc = "member.timeout", !.seconds = seconds])
    /\ started' = started + 1
    /\ UNCHANGED <<fixed, directory, protected>>

\* member.timeout(duration=timedelta(seconds=seconds), reason=...) at the platform
TimeoutCall(p) ==
    LET r == inv[p]
        ev(result) == Ev("member.timeout", NoText, r.target, r.seconds, <<>>,
                         format_reason(CallerOf(r.caller), r.reason), result)
        gone == r.target \notin guildMembers
        forbidden == r.target \in protected
    IN  /\ r.pc = "member.timeout"
        /\ timedOut' = IF gone \/ forbidden THEN timedOut
                       ELSE [timedOut EXCEPT ![r.target] = r.seconds]
        /\ SetDir(p, IF gone THEN Raise(Logged(r, ev("NotFound")), "NotFound")
                     ELSE IF forbidden
                     THEN Send(Logged(r, ev("Forbidden")),
                               "Ich habe keine Berechtigung fuer dieses Mitglied.")
                     ELSE Send(Logged(r, ev("ok")),
                               "{member.mention} wurde fuer {dauer} stummgeschaltet."),
                  ~(gone \/ forbidden))
        /\ UNCHANGED <<fixed, roles, nextRoleId, channels, guildMembers, cached,
                       memberRoles, banned, protected, msgs, started>>

(***************************************************************************)
(* /kick and /ban (lines 301-330).                                         *)
(***************************************************************************)
InvokeKick(p) ==
    /\ Free(p)
    /\ \E ia \in Interactions :
        IF ~require_moderator(ia.user, cfg)
        THEN Set(p, Denied("kick", ia))
        ELSE
        \E member \in guildMembers, reason \in Reasons :
            Set(p, [Begin("kick", ia) EXCEPT !.target = member, !.reason = reason,
                                            !.pc = "member.kick"])
    /\ started' = started + 1
    /\ UNCHANGED <<fixed, directory, protected>>

InvokeBan(p) ==
    /\ Free(p)
    /\ \E ia \in Interactions :
        IF ~require_moderator(ia.user, cfg)
        THEN Set(p, Denied("ban", ia))
        ELSE
        \E member \in guildMembers, reason \in Reasons :
        LET rec == [Begin("ban", ia) EXCEPT !.target = member, !.reason = reason]
        IN  Set(p, IF ~ia.guild
                   THEN Raise(rec, "AttributeError")
                   ELSE [rec EXCEPT !.pc = "guild.ban"])
    /\ started' = started + 1
    /\ UNCHANGED <<fixed, directory, protected>>

\* member.kick(reason=...) / guild.ban(member, reason=...) at the platform
RemovalCall(p, op, okText, failText) ==
    LET r == inv[p]
        ev(result) == Ev(op, NoText, r.target, 0, <<>>,
                         format_reason(CallerOf(r.caller), r.reason), result)
        gone == r.target \notin guildMembers
        forbidden == r.target \in protected
        done == ~(gone \/ forbidden)
    IN  /\ r.pc = op
        /\ guildMembers' = IF done THEN guildMembers \ {r.target} ELSE guildMembers
        /\ cached' = IF done THEN cached \ {r.target} ELSE cached
        /\ memberRoles' = IF done THEN [memberRoles EXCEPT ![r.target] = {}]
                          ELSE memberRoles
        /\ timedOut' = IF done THEN [timedOut EXCEPT ![r.target] = 0] ELSE timedOut
        /\ banned' = IF done /\ op = "guild.ban" THEN banned \cup {r.target} ELSE banned
        /\ SetDir(p, IF gone THEN Raise(Logged(r, ev("NotFound")), "NotFound")
                     ELSE IF forbidden THEN Send(Logged(r, ev("Forbidden")), failText)
                     ELSE Send(Logged(r, ev("ok")), okText),
                  done)
        /\ UNCHANGED <<fixed, roles, nextRoleId, channels, protected, msgs, started>>

KickCall(p) ==
    RemovalCall(p, "member.kick", "{member} wurde gekickt.",
                "Kick fehlgeschlagen - fehlen Berechtigungen?")

BanCall(p) ==
    RemovalCall(p, "guild.ban", "{member} wurde gebannt.",
                "Ban fehlgeschlagen - fehlen Berechtigungen?")

(***************************************************************************)
(* /clear-chat (lines 333-348).                                            *)
(***************************************************************************)
InvokeClearChat(p) ==
    /\ Free(p)
    /\ \E ia \in Interactions :
        IF ~require_moderator(ia.user, cfg)
        THEN Set(p, Denied("clear-chat", ia))
        ELSE
        \E textchan \in BOOLEAN, anzahl \in {1, 200}, reason \in Reasons :
        LET rec == [Begin("clear-chat", ia) EXCEPT !.textchan = textchan,
                                                  !.anzahl = anzahl, !.reason = reason]
        IN  Set(p, IF ~textchan
                   THEN Send(rec, "Dieser Befehl funktioniert nur in Textkanaelen.")
                   ELSE Defer(rec))
    /\ started' = started + 1
    /\ UNCHANGED <<fixed, directory, protected>>

ClearChatDefer(p) ==
    /\ inv[p].pc = "defer" /\ inv[p].cmd = "clear-chat"
    /\ Set(p, [Logged(inv[p], DeferEv) EXCEPT !.pc = "channel.purge"])
    /\ UNCHANGED <<fixed, directory, protected, started>>

\* channel.purge(limit=anzahl, reason=...) at the platform; Forbidden is not caught
PurgeCall(p) ==
    LET r == inv[p]
        ev(result) == Ev("channel.purge", NoText, 0, r.anzahl, <<>>,
                         format_reason(CallerOf(r.caller), r.reason), result)
        deleted == IF r.anzahl < msgs THEN r.anzahl ELSE msgs
    IN  /\ r.pc = "channel.purge"
        /\ \E ok \in BOOLEAN :
            /\ msgs' = IF ok THEN msgs - deleted ELSE msgs
            /\ SetDir(p, IF ok
                         THEN FollowUp(Logged(r, ev("ok")),
                                       "{len(deleted)} Nachrichten geloescht.", deleted)
                         ELSE Raise(Logged(r, ev("Forbidden")), "Forbidden"),
                      ok /\ deleted > 0)
        /\ UNCHANGED <<fixed, roles, nextRoleId, channels, guildMembers, cached,
                       memberRoles, timedOut, banned, protected, started>>

(***************************************************************************)
(* The final send_message / followup.send of a handler is delivered.       *)
(***************************************************************************)
Reply(p) ==
    LET r == inv[p]
    IN  /\ r.pc = "reply"
        /\ inv' = [inv EXCEPT ![p] =
                [Logged(r, Ev(r.rop, r.msg, 0, r.msgn, <<>>, None, "ok"))
                    EXCEPT !.pc = "done"]]
        /\ last' = IF r.cmd \in {"add-member", "remove-member"} /\ r.kurs_role # 0
                   THEN [cmd |-> r.cmd, kurs_name |-> r.name, members |-> r.members,
                         quiet |-> r.clean]
                   ELSE last
        /\ UNCHANGED <<fixed, directory, protected, started>>

(***************************************************************************)
(* /create-kurs (lines 351-408).                                           *)
(***************************************************************************)
\* the lookup finds nothing
fetch_course_role_none(kurs_name) == {0}

\* the names are compared as they are, without casefold()
fetch_course_role_exact(kurs_name) ==
    LET name == normalize_course_name(kurs_name)
        found == {r.id : r \in {x \in roles : x.name = name}}
    IN  IF found = {} THEN {0} ELSE found

\* a role matches when its name starts with the name asked for
fetch_course_role_prefix(kurs_name) ==
    LET name == Lower(normalize_course_name(kurs_name))
        found == {r.id : r \in {x \in roles :
                    /\ Len(x.name) >= Len(name)
                    /\ SubSeq(Lower(x.name), 1, Len(name)) = name}}
    IN  IF found = {} THEN {0} ELSE found

\* _fetch_course_role: the roles discord.utils.find can return, 0 for None
fetch_course_role(kurs_name) ==
    LET name == Lower(normalize_course_name(kurs_name))
        found == {r.id : r \in {x \in roles : Lower(x.name) = name}}
    IN  IF found = {} THEN {0} ELSE found

\* the configured id is taken to be a category without looking at it
get_course_category_unchecked(c) ==
    [ok |-> TRUE, category |-> c.KURS_CATEGORY_ID, error |-> ""]

\* _get_course_category: the category, or the text of the RuntimeError
get_course_category(c) ==
    IF c.KURS_CATEGORY_ID = 0
    THEN [ok |-> FALSE, category |-> 0,
          error |-> "Bitte KURS_CATEGORY_ID konfigurieren."]
    ELSE IF c.KURS_CATEGORY_ID \notin CategoryChannels
    THEN [ok |-> FALSE, category |-> 0,
          error |-> "Die angegebene KURS_CATEGORY_ID ist keine Kategorie."]
    ELSE [ok |-> TRUE, category |-> c.KURS_CATEGORY_ID, error |-> ""]

\* guild.get_role(role_id) is not None
get_role(rs, role_id) == \E r \in rs : r.id = role_id

\* guild.default_role
default_role == CHOOSE r \in {100} : TRUE

PermissionOverwrite(role, view_channel, manage_messages) ==
    [role |-> role, view_channel |-> view_channel, manage_messages |-> manage_messages]

\* the staff roles get their overwrite whether or not they exist
build_overwrites_unchecked(rs, kurs_role, c) ==
    {PermissionOverwrite(default_role, "False", "None"),
     PermissionOverwrite(kurs_role, "True", "None"),
     PermissionOverwrite(c.MODERATOR_ROLE_ID, "True", "True"),
     PermissionOverwrite(c.TEACHER_ROLE_ID, "True", "True")}

\* the overwrites dict of lines 387-396
build_overwrites(rs, kurs_role, c) ==
    {PermissionOverwrite(default_role, "False", "None"),
     PermissionOverwrite(kurs_role, "True", "None")}
    \cup (IF get_role(rs, c.MODERATOR_ROLE_ID)
          THEN {PermissionOverwrite(c.MODERATOR_ROLE_ID, "True", "True")} ELSE {})
    \cup (IF get_role(rs, c.TEACHER_ROLE_ID)
          THEN {PermissionOverwrite(c.TEACHER_ROLE_ID, "True", "True")} ELSE {})

InvokeCreateKurs(p) ==
    /\ Free(p)
    /\ \E ia \in Interactions :
        IF ~require_course_staff(ia.user, cfg)
        THEN Set(p, Denied("create-kurs", ia))
        ELSE
        \E name \in RawNames, reason \in Reasons :
        LET rec == [Begin("create-kurs", ia) EXCEPT !.name = name, !.reason = reason]
            kurs_name == normalize_course_name(name)
        IN  Set(p, IF ~ia.guild
                   THEN Send(rec, "Dieser Befehl funktioniert nur auf Servern.")
                   ELSE IF kurs_name = <<>>
                   THEN Send(rec, "Bitte gib einen Kursnamen an.")
                   ELSE Defer([rec EXCEPT !.kurs_name = kurs_name]))
    /\ started' = started + 1
    /\ UNCHANGED <<fixed, directory, protected>>

\* lines 369-379: after the defer, the duplicate lookup and the category check
CreateKursDefer(p) ==
    LET r == [Logged(inv[p], DeferEv) EXCEPT !.lookup = roles]
        cat == get_course_category(cfg)
    IN  /\ inv[p].pc = "defer" /\ inv[p].cmd = "create-kurs"
        /\ \E existing_role \in fetch_course_role(r.kurs_name) :
            Set(p, IF existing_role # 0
                   THEN FollowUp(r, "Es existiert bereits eine Kursrolle mit diesem Namen.", 0)
                   ELSE IF ~cat.ok
                   THEN FollowUp(r, cat.error, 0)
                   ELSE [r EXCEPT !.pc = "guild.create_role",
                                  !.category = cat.category])
        /\ UNCHANGED <<fixed, directory, protected, started>>

\* guild.create_role(name=kurs_name, mentionable=True, reason=...) at the
\* platform, then lines 387-396; Forbidden is not caught
CreateRoleCall(p) ==
    LET r == inv[p]
        ev(result) == Ev("guild.create_role", NoText, 0, 0, r.kurs_name,
                         format_reason(CallerOf(r.caller), r.reason), result)
        kurs_role == [id |-> nextRoleId, name |-> r.kurs_name, mentionable |-> TRUE]
    IN  /\ r.pc = "guild.create_role"
        /\ \E ok \in BOOLEAN :
            /\ roles' = IF ok THEN roles \cup {kurs_role} ELSE roles
            /\ nextRoleId' = IF ok THEN nextRoleId + 1 ELSE nextRoleId
            /\ SetDir(p, IF ok
                         THEN [Logged(r, ev("ok")) EXCEPT
                                  !.pc = "guild.create_text_channel",
                                  !.kurs_role = kurs_role.id,
                                  !.overwrites = build_overwrites(
                                      roles \cup {kurs_role}, kurs_role.id, cfg)]
                         ELSE Raise(Logged(r, ev("Forbidden")), "Forbidden"),
                      ok)
        /\ UNCHANGED <<fixed, channels, guildMembers, cached, memberRoles, timedOut,
                       banned, protected, msgs, started>>

\* the role is deleted again when the channel cannot be created
CreateChannelCallRollback(p) ==
    LET r == inv[p]
        ev(result) == Ev("guild.create_text_channel", NoText, r.category, 0,
                         slugify(r.kurs_name),
                         format_reason(CallerOf(r.caller), r.reason), result)
        channel == [name |-> slugify(r.kurs_name), category |-> r.category,
                    overwrites |-> r.overwrites]
    IN  /\ r.pc = "guild.create_text_channel"
        /\ \E ok \in BOOLEAN :
            /\ channels' = IF ok THEN channels \cup {channel} ELSE channels
            /\ roles' = IF ok THEN roles ELSE {x \in roles : x.id # r.kurs_role}
            /\ SetDir(p, IF ok
                         THEN FollowUp(Logged(r, ev("ok")),
                                       "Kurs **{kurs_name}** erstellt.", 0)
                         ELSE Raise(Logged(r, ev("Forbidden")), "Forbidden"),
                      TRUE)
        /\ UNCHANGED <<fixed, nextRoleId, guildMembers, cached, memberRoles,
                       timedOut, banned, protected, msgs, started>>

\* guild.create_text_channel(name=_slugify(kurs_name), category=..., ...) at the
\* platform; Forbidden is not caught
CreateChannelCall(p) ==
    LET r == inv[p]
        ev(result) == Ev("guild.create_text_channel", NoText, r.category, 0,
                         slugify(r.kurs_name),
                         format_reason(CallerOf(r.caller), r.reason), result)
        channel == [name |-> slugify(r.kurs_name), category |-> r.category,
                    overwrites |-> r.overwrites]
    IN  /\ r.pc = "guild.create_text_channel"
        /\ \E ok \in BOOLEAN :
            /\ channels' = IF ok THEN channels \cup {channel} ELSE channels
            /\ SetDir(p, IF ok
                         THEN FollowUp(Logged(r, ev("ok")),
                                       "Kurs **{kurs_name}** erstellt.", 0)
                         ELSE Raise(Logged(r, ev("Forbidden")), "Forbidden"),
                      ok)
        /\ UNCHANGED <<fixed, roles, nextRoleId, guildMembers, cached, memberRoles,
                       timedOut, banned, protected, msgs, started>>

(***************************************************************************)
(* /add-member and /remove-member (lines 411-504), _resolve_members.       *)
(***************************************************************************)
\* list(ids): a set in some order
Orders(S) == {s \in [1..Cardinality(S) -> S] : Range(s) = S}

\* the loop of _resolve_members from position i, up to the first id that
\* guild.get_member does not find: that id is fetched remotely
RECURSIVE resolve_loop(_, _, _)
resolve_loop(ids, i, resolved) ==
    IF i > Len(ids) THEN [i |-> i, resolved |-> resolved]
    ELSE IF ids[i] \in cached
    THEN resolve_loop(ids, i + 1, Append(resolved, ids[i]))
    ELSE [i |-> i, resolved |-> resolved]

\* lines 434-439 once the member loop stops at position run.i
after_resolve(rec, run) ==
    IF run.i <= Len(rec.ids)
    THEN [rec EXCEPT !.pc = "guild.fetch_member", !.i = run.i,
                     !.resolved = run.resolved]
    ELSE IF run.resolved = <<>>
    THEN Send([rec EXCEPT !.i = run.i], "Ich konnte keine Mitglieder finden.")
    ELSE Defer([rec EXCEPT !.i = run.i, !.resolved = run.resolved])

\* no member is ever skipped
in_target_state_never(cmd, kurs_role, held) == FALSE

\* add-member skips a member that has the role, remove-member one that lacks it
in_target_state(cmd, kurs_role, held) ==
    IF cmd = "add-member" THEN kurs_role \in held ELSE kurs_role \notin held

\* the loop ends when the call before it was refused
RECURSIVE edit_loop_abort(_, _, _)
edit_loop_abort(rec, j, mr) ==
    IF rec.log # <<>> /\ rec.log[Len(rec.log)].result = "Forbidden"
    THEN Len(rec.resolved) + 1
    ELSE IF j > Len(rec.resolved) THEN j
    ELSE IF in_target_state(rec.cmd, rec.kurs_role, mr[rec.resolved[j]])
    THEN edit_loop_abort(rec, j + 1, mr)
    ELSE j

\* the loop of lines 441-448 / 489-496 from position j, up to the first
\* member whose role has to be changed
RECURSIVE edit_loop(_, _, _)
edit_loop(rec, j, mr) ==
    IF j > Len(rec.resolved) THEN j
    ELSE IF in_target_state(rec.cmd, rec.kurs_role, mr[rec.resolved[j]])
    THEN edit_loop(rec, j + 1, mr)
    ELSE j

\* the report counts the members the loop went through, changed or not
after_edit_resolved(rec, j) ==
    IF j <= Len(rec.resolved)
    THEN [rec EXCEPT !.i = j,
             !.pc = IF rec.cmd = "add-member" THEN "member.add_roles"
                    ELSE "member.remove_roles"]
    ELSE FollowUp([rec EXCEPT !.i = j],
                  IF rec.cmd = "add-member"
                  THEN "{len(updated)} Mitglied(er) hinzugefuegt: {', '.join(updated)}"
                  ELSE "{len(removed)} Mitglied(er) entfernt: {', '.join(removed)}",
                  Len(rec.resolved))

\* lines 450-456 / 498-504 once the loop is through, else the next role call
after_edit(rec, j) ==
    IF j <= Len(rec.resolved)
    THEN [rec EXCEPT !.i = j,
             !.pc = IF rec.cmd = "add-member" THEN "member.add_roles"
                    ELSE "member.remove_roles"]
    ELSE IF rec.updated # <<>>
    THEN FollowUp([rec EXCEPT !.i = j],
                  IF rec.cmd = "add-member"
                  THEN "{len(updated)} Mitglied(er) hinzugefuegt: {', '.join(updated)}"
                  ELSE "{len(removed)} Mitglied(er) entfernt: {', '.join(removed)}",
                  Len(rec.updated))
    ELSE FollowUp([rec EXCEPT !.i = j],
                  IF rec.cmd = "add-member"
                  THEN "Niemand wurde hinzugefuegt (hatten evtl. schon die Rolle)."
                  ELSE "Niemand wurde entfernt (hatte evtl. die Rolle nicht).", 0)

InvokeEnroll(p, cmd) ==
    /\ Free(p)
    /\ \E ia \in Interactions :
        IF ~require_course_staff(ia.user, cfg)
        THEN Set(p, Denied(cmd, ia))
        ELSE
        \E name \in RawNames, members \in Selectors, reason \in Reasons :
        \E ids \in Orders(extract_member_ids(members)),
           kurs_role \in fetch_course_role(name) :
        LET rec == [Begin(cmd, ia) EXCEPT !.name = name, !.members = members,
                                         !.reason = reason]
            go  == [rec EXCEPT !.kurs_role = kurs_role, !.ids = ids,
                       !.repeat = /\ last.quiet /\ last.cmd = cmd
                                  /\ last.kurs_name = name /\ last.members = members]
        IN  Set(p, IF ~ia.guild
                   THEN Send(rec, "Dieser Befehl funktioniert nur auf Servern.")
                   ELSE IF kurs_role = 0
                   THEN Send(rec, "Keine Kursrolle mit diesem Namen gefunden.")
                   ELSE after_resolve(go, resolve_loop(ids, 1, <<>>)))
    /\ started' = started + 1
    /\ UNCHANGED <<fixed, directory, protected>>

InvokeAddMember(p) == InvokeEnroll(p, "add-member")

InvokeRemoveMember(p) == InvokeEnroll(p, "remove-member")

\* guild.fetch_member(member_id) at the platform; NotFound is skipped
FetchMemberCall(p) ==
    LET r == inv[p]
        id == r.ids[r.i]
        found == id \in guildMembers
        ev == Ev("guild.fetch_member", NoText, id, 0, <<>>, None,
                 IF found THEN "ok" ELSE "NotFound")
        resolved == IF found THEN Append(r.resolved, id) ELSE r.resolved
    IN  /\ r.pc = "guild.fetch_member"
        /\ Set(p, after_resolve(Logged(r, ev), resolve_loop(r.ids, r.i + 1, resolved)))
        /\ UNCHANGED <<fixed, directory, protected, started>>

\* lines 439-443 / 487-491: the defer, then the loop up to the first role call
EnrollDefer(p) ==
    LET r == [Logged(inv[p], DeferEv) EXCEPT !.updated = <<>>]
    IN  /\ inv[p].pc = "defer" /\ inv[p].cmd \in {"add-member", "remove-member"}
        /\ Set(p, after_edit(r, edit_loop(r, 1, memberRoles)))
        /\ UNCHANGED <<fixed, directory, protected, started>>

\* member.add_roles / member.remove_roles(kurs_role, reason=...) at the
\* platform; Forbidden is logged and the loop goes on
RoleEditCall(p) ==
    LET r == inv[p]
        m == r.resolved[r.i]
        ev(result) == Ev(r.pc, NoText, m, r.kurs_role, <<>>,
                         format_reason(CallerOf(r.caller), r.reason), result)
        gone == m \notin guildMembers
        forbidden == m \in protected
        done == ~(gone \/ forbidden)
        mr == IF ~done THEN memberRoles
              ELSE IF r.cmd = "add-member"
              THEN [memberRoles EXCEPT ![m] = @ \cup {r.kurs_role}]
              ELSE [memberRoles EXCEPT ![m] = @ \ {r.kurs_role}]
        next == IF forbidden THEN Logged(r, ev("Forbidden"))
                ELSE [Logged(r, ev("ok")) EXCEPT !.updated = Append(@, m)]
    IN  /\ r.pc \in {"member.add_roles", "member.remove_roles"}
        /\ memberRoles' = mr
        /\ SetDir(p, IF gone THEN Raise(Logged(r, ev("NotFound")), "NotFound")
                     ELSE after_edit(next, edit_loop(next, r.i + 1, mr)),
                  done)
        /\ UNCHANGED <<fixed, roles, nextRoleId, channels, guildMembers, cached,
                       timedOut, banned, protected, msgs, started>>

(***************************************************************************)
(* /create-embed (lines 575-626).                                          *)
(***************************************************************************)
Titles == {<<"T">>, <<" ">>, [i \in 1..257 |-> "t"]}

Descriptions == {<<" ", "D">>, <<>>, [i \in 1..4097 |-> "d"]}

ColorArgs == {None, <<"#", "f", "f", "f">>, <<"f", "f", "f", "f", "f", "f">>,
              <<"#", "g", "g", "0", "0", "0", "0">>, <<"f", "f">>,
              <<" ", "#", "F", "8", "0", " ">>}

\* lines 588-610: the checks up to the first awaited call
InvokeCreateEmbed(p) ==
    /\ Free(p)
    /\ \E ia \in Interactions, channel \in BOOLEAN, title \in Titles,
          description \in Descriptions, color_hex \in ColorArgs :
        LET rec == [Begin("create-embed", ia) EXCEPT
                        !.channel = channel, !.title = Strip(title),
                        !.description = Strip(description), !.color_hex = color_hex]
            color == parse_embed_color(color_hex)
        IN  Set(p, IF ~channel
                   THEN Send(rec, "Ich kann in diesem Kontext nichts senden.")
                   ELSE IF rec.title = <<>> \/ rec.description = <<>>
                   THEN Send(rec, "Titel und Beschreibung duerfen nicht leer sein.")
                   ELSE IF Len(rec.title) > 256
                   THEN Send(rec, "Der Titel darf maximal 256 Zeichen lang sein.")
                   ELSE IF Len(rec.description) > 4096
                   THEN Send(rec, "Die Beschreibung darf maximal 4096 Zeichen lang sein.")
                   ELSE IF ~color.ok
                   THEN Send(rec, color.error)
                   ELSE Defer(rec))
    /\ started' = started + 1
    /\ UNCHANGED <<fixed, directory, protected>>

\* line 618: the defer, then the embed is handed to channel.send
CreateEmbedDefer(p) ==
    /\ inv[p].pc = "defer" /\ inv[p].cmd = "create-embed"
    /\ Set(p, [Logged(inv[p], DeferEv) EXCEPT !.pc = "channel.send"])
    /\ UNCHANGED <<fixed, directory, protected, started>>

\* channel.send(embed=embed) at the platform; HTTPException and Forbidden are
\* caught and reported
ChannelSendCall(p) ==
    LET r == inv[p]
        ev(result) == Ev("channel.send", NoText, 0,
                         parse_embed_color(r.color_hex).value, r.title, None, result)
    IN  /\ r.pc = "channel.send"
        /\ \E ok \in BOOLEAN :
            /\ msgs' = IF ok THEN msgs + 1 ELSE msgs
            /\ SetDir(p, IF ok
                         THEN FollowUp(Logged(r, ev("ok")), "Embed gesendet.", 0)
                         ELSE FollowUp(Logged(r, ev("HTTPException")),
                                       "Das Embed konnte nicht gesendet werden.", 0),
                      ok)
        /\ UNCHANGED <<fixed, roles, nextRoleId, channels, guildMembers, cached,
                       memberRoles, timedOut, banned, protected, started>>

(***************************************************************************)
(* /register and RegisterModal.on_submit (lines 207-260).                  *)
(***************************************************************************)
\* _get_kurs_logs_channel: a text channel named kurs-logs, whatever the case
get_kurs_logs_channel(chs, listed) ==
    listed \/ \E ch \in chs : Lower(ch.name) = <<"k","u","r","s","-","l","o","g","s">>

\* await interaction.response.send_modal(RegisterModal(log_channel))
SendModal(rec) ==
    [rec EXCEPT !.pc = "reply", !.rop = "send_modal", !.msg = "Kurs registrieren"]

\* the command has no check; listed: the guild has a #kurs-logs next to the
\* course channels
InvokeRegister(p) ==
    /\ Free(p)
    /\ \E ia \in Interactions, listed \in BOOLEAN :
        LET rec == Begin("register", ia)
        IN  Set(p, IF ~ia.guild
                   THEN Send(rec, "Bitte benutze diesen Befehl auf dem Server.")
                   ELSE IF ~get_kurs_logs_channel(channels, listed)
                   THEN Send(rec, "Kanal #kurs-logs wurde nicht gefunden.")
                   ELSE SendModal(rec))
    /\ started' = started + 1
    /\ UNCHANGED <<fixed, directory, protected>>

\* the user submits the modal that was shown: a new interaction, handled by
\* on_submit, which first awaits log_channel.send
SubmitModal(p) ==
    LET r == inv[p]
    IN  /\ r.cmd = "register" /\ r.pc = "done" /\ r.exc = "" /\ r.rop = "send_modal"
        /\ Set(p, [Idle EXCEPT !.cmd = "on_submit", !.pc = "log_channel.send",
                               !.caller = r.caller, !.guild = r.guild])
        /\ UNCHANGED <<fixed, directory, protected, started>>

\* log_channel.send(content) at the platform (lines 232-233); HTTPException
\* and Forbidden are caught at line 235
LogChannelSendCall(p) ==
    LET r == inv[p]
        ev(result) == Ev("log_channel.send", NoText, r.caller, 0, <<>>, None, result)
    IN  /\ r.pc = "log_channel.send"
        /\ \E ok \in BOOLEAN :
            Set(p, IF ok
                   THEN [Logged(r, ev("ok")) EXCEPT !.pc = "send_message"]
                   ELSE Send(Logged(r, ev("HTTPException")),
                             "Fehler beim Speichern deiner Angaben. Bitte versuche es spaeter erneut."))
        /\ UNCHANGED <<fixed, directory, protected, started>>

\* line 234, inside the try: interaction.response.send_message; when it raises
\* HTTPException the handler of line 235 answers with send_message again
ThanksCall(p) ==
    LET r == inv[p]
        text == "Danke! Deine Angaben wurden gespeichert."
        ev(result) == Ev("send_message", text, 0, 0, <<>>, None, result)
    IN  /\ r.pc = "send_message"
        /\ \E ok \in BOOLEAN :
            Set(p, IF ok
                   THEN [r EXCEPT !.log = Append(@, ev("ok")),
                                  !.pc = "done", !.rop = "send_message", !.msg = text]
                   ELSE Send([r EXCEPT !.log = Append(@, ev("HTTPException"))],
                             "Fehler beim Speichern deiner Angaben. Bitte versuche es spaeter erneut."))
        /\ UNCHANGED <<fixed, directory, protected, started>>

(***************************************************************************)
(* /upload-file and /echo (lines 507-572).                                 *)
(***************************************************************************)
MAX_FILE_UPLOAD_BYTES == 26214400

\* attachment.size
FileSizes == {0, MAX_FILE_UPLOAD_BYTES, MAX_FILE_UPLOAD_BYTES + 1}

\* the message of /upload-file, the text of /echo
Texts == {<<"h", "i", " ">>, <<" ">>}

InvokeUploadFile(p) ==
    /\ Free(p)
    /\ \E ia \in Interactions, channel \in BOOLEAN, size \in FileSizes,
          message \in Texts \cup {None} :
        LET rec == [Begin("upload-file", ia) EXCEPT
                        !.channel = channel,
                        !.text = IF message = None \/ Strip(message) = <<>> THEN None
                                 ELSE Strip(message)]
        IN  Set(p, IF ~channel
                   THEN Send(rec, "Ich kann in diesem Kontext nichts senden.")
                   ELSE IF size # 0 /\ size > MAX_FILE_UPLOAD_BYTES
                   THEN Send(rec, "Dateien duerfen maximal {limit_mb} MB gross sein.")
                   ELSE Defer(rec))
    /\ started' = started + 1
    /\ UNCHANGED <<fixed, directory, protected>>

\* line 529: the defer; attachment.to_file is awaited next
UploadFileDefer(p) ==
    /\ inv[p].pc = "defer" /\ inv[p].cmd = "upload-file"
    /\ Set(p, [Logged(inv[p], DeferEv) EXCEPT !.pc = "attachment.to_file"])
    /\ UNCHANGED <<fixed, directory, protected, started>>

\* lines 531-533: attachment.to_file, then channel.send(content, file); an
\* HTTPException or Forbidden of either is caught and reported
UploadFileCall(p) ==
    LET r == inv[p]
        read(result) ==
            [r EXCEPT !.log = Append(@, Ev("attachment.to_file", NoText, 0, 0, <<>>,
                                           None, result))]
        post(result) == Ev("channel.send", NoText, 0, 0, r.text, None, result)
        failed == "Die Datei konnte nicht gesendet werden."
    IN  /\ r.pc = "attachment.to_file"
        /\ \E fetched \in BOOLEAN, ok \in BOOLEAN :
            /\ msgs' = IF fetched /\ ok THEN msgs + 1 ELSE msgs
            /\ SetDir(p, IF ~fetched
                         THEN FollowUp(read("HTTPException"), failed, 0)
                         ELSE IF ~ok
                         THEN FollowUp(Logged(read("ok"), post("HTTPException")), failed, 0)
                         ELSE FollowUp(Logged(read("ok"), post("ok")), "Datei gepostet.", 0),
                      fetched /\ ok)
        /\ UNCHANGED <<fixed, roles, nextRoleId, channels, guildMembers, cached,
                       memberRoles, timedOut, banned, protected, started>>

InvokeEcho(p) ==
    /\ Free(p)
    /\ \E ia \in Interactions, channel \in BOOLEAN, text \in Texts :
        LET rec == [Begin("echo", ia) EXCEPT !.channel = channel, !.text = Strip(text)]
        IN  Set(p, IF ~channel
                   THEN Send(rec, "Ich kann in diesem Kontext nichts senden.")
                   ELSE IF rec.text = <<>>
                   THEN Send(rec, "Bitte gib eine Nachricht an.")
                   ELSE Defer(rec))
    /\ started' = started + 1
    /\ UNCHANGED <<fixed, directory, protected>>

\* line 561: the defer; channel.send is awaited next
EchoDefer(p) ==
    /\ inv[p].pc = "defer" /\ inv[p].cmd = "echo"
    /\ Set(p, [Logged(inv[p], DeferEv) EXCEPT !.pc = "echo.send"])
    /\ UNCHANGED <<fixed, directory, protected, started>>

\* channel.send(cleaned, allowed_mentions=...) at the platform; HTTPException
\* and Forbidden are caught and reported
EchoSendCall(p) ==
    LET r == inv[p]
        ev(result) == Ev("channel.send", NoText, 0, 0, r.text, None, result)
    IN  /\ r.pc = "echo.send"
        /\ \E ok \in BOOLEAN :
            /\ msgs' = IF ok THEN msgs + 1 ELSE msgs
            /\ SetDir(p, IF ok
                         THEN FollowUp(Logged(r, ev("ok")), "Nachricht gesendet.", 0)
                         ELSE FollowUp(Logged(r, ev("HTTPException")),
                                       "Die Nachricht konnte nicht gesendet werden.", 0),
                      ok)
        /\ UNCHANGED <<fixed, roles, nextRoleId, channels, guildMembers, cached,
                       memberRoles, timedOut, banned, protected, started>>

(***************************************************************************)
(* The final send_message / send_modal / followup.send of a handler is     *)
(* refused: the HTTPException leaves the handler.                          *)
(***************************************************************************)
ReplyFails(p) ==
    LET r == inv[p]
    IN  /\ r.pc = "reply"
        /\ Set(p, Raise(Logged(r, Ev(r.rop, r.msg, 0, r.msgn, <<>>, None, "HTTPException")),
                        "HTTPException"))
        /\ UNCHANGED <<fixed, directory, protected, started>>

\* the coroutine of the handler has ended
Return(p) ==
    /\ inv[p].pc = "done"
    /\ Set(p, Idle)
    /\ UNCHANGED <<fixed, directory, protected, started>>

(***************************************************************************)
(* The platform: the role hierarchy changes under the bot.                 *)
(***************************************************************************)
HierarchyChange ==
    /\ \E m \in Members :
        protected' = IF m \in protected THEN protected \ {m} ELSE protected \cup {m}
    /\ inv' = [q \in Procs |-> Disturbed(inv[q])]
    /\ last' = [last EXCEPT !.quiet = FALSE]
    /\ UNCHANGED <<fixed, directory, started>>

Next ==
    \E p \in {1} :
        \/ InvokeTimeout(p) \/ TimeoutCall(p)
        \/ InvokeKick(p) \/ KickCall(p)
        \/ InvokeBan(p) \/ BanCall(p)
        \/ InvokeClearChat(p) \/ ClearChatDefer(p) \/ PurgeCall(p)
        \/ InvokeCreateKurs(p) \/ CreateKursDefer(p) \/ CreateRoleCall(p)
        \/ CreateChannelCall(p)
        \/ InvokeAddMember(p) \/ InvokeRemoveMember(p) \/ FetchMemberCall(p)
        \/ EnrollDefer(p) \/ RoleEditCall(p)
        \/ Reply(p) \/ Return(p)

Spec == Init /\ [][Next]_vars

\* enrollment commands one after the other, under a changing role hierarchy
NextEnroll ==
    \/ \E p \in {1} :
        \/ InvokeAddMember(p) \/ InvokeRemoveMember(p) \/ FetchMemberCall(p)
        \/ EnrollDefer(p) \/ RoleEditCall(p)
        \/ Reply(p) \/ Return(p)
    \/ HierarchyChange

SpecEnroll == InitEnroll /\ [][NextEnroll]_vars

(***************************************************************************)
(* The two authorization predicates on their own, over every combination   *)
(* of permissions, held roles and configured role ids.                     *)
(***************************************************************************)
\* a discord.Member with any permissions and roles, or a plain discord.User
AuthUsers ==
    {[id |-> 11, name |-> <<"a">>, member |-> TRUE, administrator |-> a,
      manage_guild |-> g, moderate_members |-> m, roles |-> rs] :
        a \in BOOLEAN, g \in BOOLEAN, m \in BOOLEAN, rs \in SUBSET {101, 102, 103}}
    \cup {c \in Callers : ~c.member}

AuthConfigs ==
    {[MODERATOR_ROLE_ID |-> mr, TEACHER_ROLE_ID |-> tr, KURS_CATEGORY_ID |-> 201] :
        mr \in {0, 101, 103}, tr \in {0, 102, 101}}

InitAuth ==
    /\ cfg \in AuthConfigs
    /\ limit = 0
    /\ probe \in {[fn |-> "", arg |-> u, res |-> FALSE] : u \in AuthUsers}
    /\ Guild

CheckModerator ==
    /\ probe.fn = ""
    /\ probe' = [probe EXCEPT !.fn = "require_moderator",
                              !.res = require_moderator(probe.arg, cfg)]
    /\ UNCHANGED <<cfg, limit, directory, protected, inv, started, last>>

CheckCourseStaff ==
    /\ probe.fn = ""
    /\ probe' = [probe EXCEPT !.fn = "require_course_staff",
                              !.res = require_course_staff(probe.arg, cfg)]
    /\ UNCHANGED <<cfg, limit, directory, protected, inv, started, last>>

NextAuth == CheckModerator \/ CheckCourseStaff

SpecAuth == InitAuth /\ [][NextAuth]_vars

(***************************************************************************)
(* Two /create-kurs interactions in progress at once: the event loop runs  *)
(* one coroutine until its next await, so the steps of the two interleave  *)
(* at the awaited calls.                                                   *)
(***************************************************************************)
\* create-kurs invocations per behaviour of SpecRace
MaxRacers == 2

InitRace ==
    /\ cfg = CHOOSE c \in Configs : c.KURS_CATEGORY_ID \in CategoryChannels
    /\ limit = MaxRacers
    /\ probe = NoProbe
    /\ Guild

NextRace ==
    \E p \in Procs :
        \/ InvokeCreateKurs(p) \/ CreateKursDefer(p) \/ CreateRoleCall(p)
        \/ CreateChannelCall(p)
        \/ Reply(p) \/ Return(p)

SpecRace == InitRace /\ [][NextRace]_vars

(***************************************************************************)
(* The pure helpers on their own, each applied to every string of a small  *)
(* alphabet up to a length bound, and to long strings around the cut.      *)
(***************************************************************************)
\* length of the enumerated argument strings
MaxLen == 3

Strings(alphabet, n) == UNION {[1..k -> alphabet] : k \in 0..n}

\* name arguments: letters of both cases, a digit, dash, blanks, other signs
SlugAlphabet == {"a", "Z", "7", "-", " ", "\t", "!", "_"}

\* names of 89 to 92 characters with runs of blanks in them
LongNames ==
    {[i \in 1..n |-> IF i % 4 \in {2, 3} THEN " " ELSE c] :
        n \in (SlugMax - 1)..(SlugMax + 2), c \in {"Z", "!"}}

SlugInputs == Strings(SlugAlphabet, MaxLen) \cup LongNames

InitPure ==
    /\ cfg = CHOOSE c \in Configs : c.KURS_CATEGORY_ID \in CategoryChannels
    /\ limit = 0
    /\ probe = NoProbe
    /\ Guild

\* one call of a helper, in a behaviour that dispatches no command: probe
\* takes the helper's name, its argument and what it returned
Apply ==
    /\ limit = 0 /\ probe.fn = ""
    /\ UNCHANGED <<cfg, limit, directory, protected, inv, started, last>>

ApplySlugify ==
    \E s \in SlugInputs :
        /\ Apply
        /\ probe' = [fn |-> "_slugify", arg |-> s, res |-> slugify(s)]

\* tokens of a member selector, each with the member ids it names
SelectorTokens == {
    [text |-> <<"<", "@", "1", ">">>, ids |-> {1}],
    [text |-> <<"<", "@", "!", "1", ">">>, ids |-> {1}],
    [text |-> <<"1">>, ids |-> {1}],
    [text |-> <<"0", "1">>, ids |-> {1}],
    [text |-> <<"2">>, ids |-> {2}],
    [text |-> <<"<", "@", "!", "2", ">">>, ids |-> {2}],
    [text |-> <<"<", "@", "1", ">", "<", "@", "2", "3", ">">>, ids |-> {1, 23}],
    [text |-> <<"<", "@", "1", ">", "2">>, ids |-> {1}],
    [text |-> <<"x", "<", "@", "3", ">", "y">>, ids |-> {3}],
    [text |-> <<"<", "@", "!", "!", "3", ">">>, ids |-> {}],
    [text |-> <<"<", "@", "3">>, ids |-> {}],
    [text |-> <<"@", "3", ">">>, ids |-> {}],
    [text |-> <<"3", "x">>, ids |-> {}],
    [text |-> <<"x">>, ids |-> {}]}

\* what stands between two tokens
SelectorSeps == {<<",">>, <<" ">>, <<",", "\n", " ">>}

\* tokens per enumerated selector
MaxTokens == 2

RECURSIVE Weave(_, _)
Weave(tokens, sep) ==
    IF tokens = <<>> THEN <<>>
    ELSE IF Len(tokens) = 1 THEN tokens[1].text
    ELSE tokens[1].text \o sep \o Weave(Tail(tokens), sep)

\* selectors: tokens with one separator between them, with or without
\* separators around the whole
SelectorInputs ==
    {[tokens |-> ts, raw |-> pad \o Weave(ts, sep) \o pad] :
        ts \in UNION {[1..k -> SelectorTokens] : k \in 0..MaxTokens},
        sep \in SelectorSeps, pad \in {<<>>, <<",", " ">>}}

ApplyExtractMemberIds ==
    \E s \in SelectorInputs :
        /\ Apply
        /\ probe' = [fn |-> "_extract_member_ids", arg |-> s,
                      res |-> extract_member_ids(s.raw)]

\* duration arguments: blanks, an optional sign or letter, digits with their
\* value, a unit or something else, blanks
DurationDigits == {
    [text |-> <<>>, value |-> 0], [text |-> <<"0">>, value |-> 0],
    [text |-> <<"7">>, value |-> 7], [text |-> <<"4", "5">>, value |-> 45],
    [text |-> <<"0", "0", "7">>, value |-> 7], [text |-> <<"2", "8">>, value |-> 28]}

DurationUnits == {<<>>, <<"s">>, <<"m">>, <<"h">>, <<"d">>, <<"S">>, <<"M">>, <<"H">>,
                  <<"D">>, <<"w">>, <<"x">>, <<"m", "s">>, <<" ", "s">>, <<"-">>}

DurationInputs ==
    {[raw |-> pad \o pre \o d.text \o unit \o pad, pre |-> pre, digits |-> d,
      unit |-> unit] :
        pad \in {<<>>, <<" ">>, <<"\t", " ">>}, pre \in {<<>>, <<"-">>, <<"+">>, <<"a">>},
        d \in DurationDigits, unit \in DurationUnits}

ApplyParseDuration ==
    \E s \in DurationInputs :
        /\ Apply
        /\ probe' = [fn |-> "_parse_duration", arg |-> s, res |-> parse_duration(s.raw)]

\* color arguments: blanks, '#' signs, a body and blanks; twin is the body
\* with every character doubled, with or without a '#'
ColorBodies ==
    Strings({"0", "f", "A", "g"}, MaxLen)
    \cup {[i \in 1..(2 * Len(b)) |-> b[(i + 1) \div 2]] :
            b \in Strings({"0", "f", "A", "g"}, MaxLen)}
    \cup {<<"1", "2", "a", "b", "E", "F">>, <<"1", "2", "a", "b", "e", "g">>,
          <<"f", " ", "f">>, <<"f", "f", "#">>, <<"f", "f", "f", "f">>,
          <<"f", "f", "f", "f", "f">>, <<"f", "f", "f", "f", "f", "f", "f">>}

ColorInputs ==
    {[raw |-> None, pad |-> <<>>, hash |-> <<>>, body |-> <<>>, twin |-> None]}
    \cup {[raw |-> pad \o hash \o b \o pad, pad |-> pad, hash |-> hash, body |-> b,
           twin |-> hash2 \o [i \in 1..(2 * Len(b)) |-> b[(i + 1) \div 2]]] :
            pad \in {<<>>, <<" ">>}, hash \in {<<>>, <<"#">>, <<"#", "#">>},
            hash2 \in {<<>>, <<"#">>}, b \in ColorBodies}

ApplyParseEmbedColor ==
    \E s \in ColorInputs :
        /\ Apply
        /\ probe' = [fn |-> "_parse_embed_color", arg |-> s,
                      res |-> [color |-> parse_embed_color(s.raw),
                               twin |-> parse_embed_color(s.twin)]]

NextPure ==
    \/ ApplySlugify
    \/ ApplyParseDuration

SpecPure == InitPure /\ [][NextPure]_vars

(***************************************************************************)
(* The member selector: _extract_member_ids on its own, or one enrollment  *)
(* command.                                                                *)
(***************************************************************************)
InitSelect ==
    /\ cfg = CHOOSE c \in Configs : c.TEACHER_ROLE_ID # 0 /\ c.MODERATOR_ROLE_ID # 0
    /\ limit \in {0, MaxInvocations}
    /\ probe = NoProbe
    /\ Guild
    \* the helper on its own does not look at the guild: one guild is enough
    /\ limit = 0 => protected = {}

NextSelect ==
    \/ ApplyExtractMemberIds
    \/ \E p \in {1} :
        \/ InvokeAddMember(p) \/ InvokeRemoveMember(p) \/ FetchMemberCall(p)
        \/ EnrollDefer(p) \/ RoleEditCall(p)
        \/ Reply(p) \/ Return(p)

SpecSelect == InitSelect /\ [][NextSelect]_vars

(***************************************************************************)
(* The embed color: _parse_embed_color on its own, or one /create-embed.   *)
(***************************************************************************)
InitEmbed ==
    /\ cfg = CHOOSE c \in Configs : c.KURS_CATEGORY_ID \in CategoryChannels
    /\ limit \in {0, MaxInvocations}
    /\ probe = NoProbe
    /\ Guild

NextEmbed ==
    \/ ApplyParseEmbedColor
    \/ \E p \in {1} :
        \/ InvokeCreateEmbed(p) \/ CreateEmbedDefer(p) \/ ChannelSendCall(p)
        \/ Reply(p) \/ Return(p)

SpecEmbed == InitEmbed /\ [][NextEmbed]_vars

(***************************************************************************)
(* /create-kurs under every configuration of the staff roles: unset (0),   *)
(* a role of the server, or the id of a role the server does not have.     *)
(***************************************************************************)
KursConfigs ==
    {[MODERATOR_ROLE_ID |-> mr, TEACHER_ROLE_ID |-> tr, KURS_CATEGORY_ID |-> 201] :
        mr \in {0, 101, 103}, tr \in {0, 102, 103}}

InitKurs ==
    /\ cfg \in KursConfigs
    /\ limit = MaxInvocations
    /\ probe = NoProbe
    /\ Guild

NextKurs ==
    \E p \in {1} :
        \/ InvokeCreateKurs(p) \/ CreateKursDefer(p) \/ CreateRoleCall(p)
        \/ CreateChannelCall(p)
        \/ Reply(p) \/ Return(p)

SpecKurs == InitKurs /\ [][NextKurs]_vars

(***************************************************************************)
(* Every command of the bot, the modal of /register included, with final   *)
(* replies that the platform may refuse.                                   *)
(***************************************************************************)
NextRespond ==
    \/ Next
    \/ \E p \in {1} :
        \/ InvokeCreateEmbed(p) \/ CreateEmbedDefer(p) \/ ChannelSendCall(p)
        \/ InvokeRegister(p) \/ SubmitModal(p) \/ LogChannelSendCall(p)
        \/ ThanksCall(p)
        \/ InvokeUploadFile(p) \/ UploadFileDefer(p) \/ UploadFileCall(p)
        \/ InvokeEcho(p) \/ EchoDefer(p) \/ EchoSendCall(p)
        \/ ReplyFails(p)

SpecRespond == Init /\ [][NextRespond]_vars

(***************************************************************************)
(* Properties.                                                             *)
(***************************************************************************)
MutatingOps == {"member.timeout", "member.kick", "guild.ban", "channel.purge",
                "guild.create_role", "guild.create_text_channel",
                "member.add_roles", "member.remove_roles"}
EditOps == {"member.add_roles", "member.remove_roles"}
DirectoryOps == MutatingOps \cup {"guild.fetch_member"}
ReplyOps == {"send_message", "followup.send"}
EnrollCmds == {"add-member", "remove-member"}
ModeratorCmds == {"timeout", "kick", "ban", "clear-chat"}
StaffCmds == {"create-kurs", "add-member", "remove-member"}

IsModerator(u, c) ==
    \/ u.administrator \/ u.manage_guild \/ u.moderate_members
    \/ c.MODERATOR_ROLE_ID \in u.roles

IsCourseStaff(u, c) ==
    \/ u.administrator \/ u.manage_guild
    \/ c.MODERATOR_ROLE_ID \in u.roles \/ c.TEACHER_ROLE_ID \in u.roles

FailsAuthorization(r) ==
    \/ r.cmd \in ModeratorCmds /\ ~IsModerator(CallerOf(r.caller), cfg)
    \/ r.cmd \in StaffCmds /\ ~IsCourseStaff(CallerOf(r.caller), cfg)

Events(r, ops) == {i \in DOMAIN r.log : r.log[i].op \in ops}

\* C1: a privileged command whose caller fails the command's authorization
\* predicate ends with CheckFailure (permission denied), and none of its calls
\* is a Directory mutation.
C1_DeniedBeforeMutation ==
    \A p \in Procs :
        FailsAuthorization(inv[p]) =>
            /\ inv[p].pc = "done"
            /\ inv[p].exc = "CheckFailure"
            /\ Events(inv[p], MutatingOps) = {}

C1_Witness ==
    \E p \in Procs :
        /\ inv[p].cmd = "create-kurs" /\ inv[p].caller = 12
        /\ inv[p].exc = "CheckFailure"

\* C2: the moderator predicate is true exactly for a caller with the
\* administrator, manage-guild or moderate-members permission or with the
\* configured Moderator role; an administrator without roles passes, a caller
\* with nothing but the Teacher role fails.
C2_IsModeratorExact ==
    probe.fn = "require_moderator" =>
        LET u == probe.arg
        IN  /\ probe.res <=> IsModerator(u, cfg)
            /\ u.administrator /\ u.roles = {} => probe.res
            /\ (/\ ~u.administrator /\ ~u.manage_guild /\ ~u.moderate_members
                /\ u.roles = {cfg.TEACHER_ROLE_ID}
                /\ cfg.TEACHER_ROLE_ID # cfg.MODERATOR_ROLE_ID) => ~probe.res

C2_Witness ==
    /\ probe.fn = "require_moderator" /\ ~probe.res
    /\ cfg.TEACHER_ROLE_ID = 102 /\ cfg.MODERATOR_ROLE_ID = 101
    /\ probe.arg.member /\ probe.arg.roles = {102}

\* C3: the course-staff predicate is true exactly for a caller with the
\* administrator or manage-guild permission or with the configured Moderator
\* or Teacher role; the moderate-members permission alone fails, and a role id
\* configured as 0 matches no held role.
C3_IsCourseStaffExact ==
    probe.fn = "require_course_staff" =>
        LET u == probe.arg
        IN  /\ probe.res <=> IsCourseStaff(u, cfg)
            /\ (~u.administrator /\ ~u.manage_guild /\ u.roles = {}) => ~probe.res
            /\ (/\ ~u.administrator /\ ~u.manage_guild
                /\ cfg.MODERATOR_ROLE_ID = 0 /\ cfg.TEACHER_ROLE_ID = 0) => ~probe.res

C3_Witness ==
    /\ probe.fn = "require_course_staff" /\ ~probe.res
    /\ probe.arg.member /\ probe.arg.moderate_members /\ probe.arg.roles = {}

DuplicateText == "Es existiert bereits eine Kursrolle mit diesem Namen."

\* C4: when create-kurs looks up the course role and a role with the
\* normalized name (compared case-insensitively) exists, the command answers
\* that the course exists and calls neither create_role nor
\* create_text_channel.
C4_DuplicateRejected ==
    \A p \in Procs :
        LET r == inv[p]
        IN  (/\ r.cmd = "create-kurs"
             /\ \E x \in r.lookup :
                    Lower(x.name) = Lower(normalize_course_name(r.name))) =>
                /\ r.pc \in {"reply", "done"}
                /\ r.rop = "followup.send" /\ r.msg = DuplicateText
                /\ r.exc = ""
                /\ Events(r, {"guild.create_role", "guild.create_text_channel"}) = {}

C4_Witness ==
    \E p \in Procs :
        /\ inv[p].cmd = "create-kurs" /\ inv[p].pc = "done"
        /\ inv[p].name = <<" ", "m", "A", " ">>
        /\ inv[p].msg = DuplicateText
        /\ \E i \in DOMAIN inv[p].log : inv[p].log[i].text = DuplicateText

\* C5: when create-kurs has created the role and the creation of the channel
\* is refused, the caller gets a report of it.
C5_PartialFailureReported ==
    \A p \in Procs :
        LET r == inv[p]
        IN  (/\ r.cmd = "create-kurs" /\ r.pc = "done"
             /\ \E i \in DOMAIN r.log :
                    r.log[i].op = "guild.create_role" /\ r.log[i].result = "ok"
             /\ \E i \in DOMAIN r.log :
                    /\ r.log[i].op = "guild.create_text_channel"
                    /\ r.log[i].result = "Forbidden") =>
                Events(r, ReplyOps) # {}

ChangedTexts ==
    {"{len(updated)} Mitglied(er) hinzugefuegt: {', '.join(updated)}",
     "{len(removed)} Mitglied(er) entfernt: {', '.join(removed)}"}

\* the members counted as changed are those whose role call succeeded
C6_Counted ==
    \A p \in Procs :
        inv[p].cmd \in EnrollCmds =>
            Range(inv[p].updated) =
                {inv[p].log[i].id : i \in {j \in Events(inv[p], EditOps) :
                                              inv[p].log[j].result = "ok"}}

\* the same enrollment command run again on an unchanged Directory changes
\* no role and does not report a change
C6_Repeat ==
    \A p \in Procs :
        inv[p].repeat =>
            /\ \A i \in Events(inv[p], EditOps) : inv[p].log[i].result # "ok"
            /\ inv[p].updated = <<>>
            /\ inv[p].msg \notin ChangedTexts

\* a role call is made only for a member that is not in the target state
C6_Step ==
    \A p \in Procs :
        (/\ inv'[p].cmd = inv[p].cmd
         /\ Len(inv'[p].log) = Len(inv[p].log) + 1
         /\ inv'[p].log[Len(inv'[p].log)].op \in EditOps) =>
            LET e == inv'[p].log[Len(inv'[p].log)]
            IN  /\ e.op = "member.add_roles" => e.n \notin memberRoles[e.id]
                /\ e.op = "member.remove_roles" => e.n \in memberRoles[e.id]
                /\ memberRoles' # memberRoles <=> e.result = "ok"

\* C6: add-member makes no role call for a member that holds the course role
\* and does not count it, remove-member none for a member that lacks it; the
\* same command run a second time with nothing changed in between changes no
\* role and reports nobody changed.
C6_Idempotent == [](C6_Counted /\ C6_Repeat) /\ [][C6_Step]_vars

C6_Witness ==
    \E p \in Procs :
        /\ inv[p].repeat /\ inv[p].cmd = "add-member" /\ inv[p].pc = "done"
        /\ inv[p].resolved = <<1, 2>>
        /\ \A m \in {1, 2} : inv[p].kurs_role \in memberRoles[m]
        /\ inv[p].msg = "Niemand wurde hinzugefuegt (hatten evtl. schon die Rolle)."

\* C7: an enrollment command that reaches the member loop ends with its
\* report whatever fails for single members: every id of the selector was
\* resolved or skipped as NotFound, every resolved member is in the target
\* state or was refused (Forbidden), and no call was made twice.
C7_BatchContinues ==
    \A p \in Procs :
        LET r == inv[p]
        IN  (r.cmd \in EnrollCmds /\ r.pc = "done" /\ r.kurs_role # 0) =>
                /\ r.exc = ""
                /\ \A id \in Range(r.ids) :
                    \/ id \in Range(r.resolved)
                    \/ \E i \in Events(r, {"guild.fetch_member"}) :
                          r.log[i].id = id /\ r.log[i].result = "NotFound"
                /\ \A m \in Range(r.resolved) :
                    \/ in_target_state(r.cmd, r.kurs_role, memberRoles[m])
                    \/ \E i \in Events(r, EditOps) :
                          r.log[i].id = m /\ r.log[i].result = "Forbidden"
                /\ \A i, j \in Events(r, EditOps \cup {"guild.fetch_member"}) :
                    (r.log[i].op = r.log[j].op /\ r.log[i].id = r.log[j].id) => i = j

C7_Witness ==
    \E p \in Procs :
        LET r == inv[p]
        IN  /\ r.cmd \in EnrollCmds /\ r.pc = "done"
            /\ \E i, j \in Events(r, EditOps) :
                i < j /\ r.log[i].result = "Forbidden" /\ r.log[j].result = "ok"

\* C8: in add-member, remove-member and clear-chat every Directory call of
\* the command, the remote member fetches included, comes after the defer.
C8_DeferBeforeDirectoryCalls ==
    \A p \in Procs :
        inv[p].cmd \in EnrollCmds \cup {"clear-chat"} =>
            \A i \in Events(inv[p], DirectoryOps) :
                \E j \in Events(inv[p], {"defer"}) : j < i

\* C9: a command whose Directory mutation the platform refuses (Forbidden)
\* ends with a reply to the caller.
C9_ForbiddenAlwaysReported ==
    \A p \in Procs :
        LET r == inv[p]
        IN  (/\ r.pc = "done"
             /\ \E i \in Events(r, MutatingOps \ EditOps) :
                    r.log[i].result = "Forbidden") =>
                r.log[Len(r.log)].op \in ReplyOps

CeilingText == "Timeouts sind maximal 28 Tage lang moeglich."

\* C10: member.timeout is never called with more than 2,419,200 seconds: a
\* longer duration is answered with the 28-day message and no call, a duration
\* of exactly 28 days is applied.
C10_TimeoutCeiling ==
    /\ \A m \in Members : timedOut[m] <= 2419200
    /\ \A p \in Procs :
        LET r == inv[p]
            seconds == parse_duration(r.dauer)
        IN  r.cmd = "timeout" =>
                /\ \A i \in Events(r, {"member.timeout"}) : r.log[i].n <= 2419200
                /\ (r.exc # "CheckFailure" /\ seconds > 2419200) =>
                        /\ r.pc \in {"reply", "done"}
                        /\ r.rop = "send_message" /\ r.msg = CeilingText
                        /\ Events(r, MutatingOps) = {}
                /\ (r.exc # "CheckFailure" /\ seconds = 2419200) =>
                        \/ r.pc = "member.timeout"
                        \/ \E i \in Events(r, {"member.timeout"}) :
                              r.log[i].n = 2419200

C10_Witness ==
    \E p \in Procs :
        /\ inv[p].cmd = "timeout" /\ inv[p].pc = "done"
        /\ inv[p].dauer = <<"2", "8", "d">>
        /\ timedOut[inv[p].target] = 2419200

SameName(x, y) == Lower(x.name) = Lower(y.name)

\* the roles an invocation has created
Created(r) ==
    {r.log[i].name : i \in {j \in Events(r, {"guild.create_role"}) :
                                  r.log[j].result = "ok"}}

\* C11: the duplicate check of create-kurs is made against the roles present
\* at its own lookup and nothing later: an invocation creates a role only if
\* no role of that name (case-insensitively) was present when it looked, and
\* two invocations that both looked before either created each create a role
\* of the same name.
C11_LookupNotTransactional ==
    \A p \in Procs :
        LET r == inv[p]
        IN  (\/ r.pc \in {"guild.create_role", "guild.create_text_channel"}
             \/ Created(r) # {}) =>
                /\ r.cmd = "create-kurs"
                /\ \A x \in r.lookup : Lower(x.name) # Lower(r.kurs_name)
                /\ Created(r) \subseteq {r.kurs_name}

C11_Witness ==
    /\ \E x, y \in roles : x.id # y.id /\ SameName(x, y)
    /\ \A p \in Procs :
        /\ inv[p].cmd = "create-kurs" /\ Created(inv[p]) # {}
        /\ \A x \in inv[p].lookup : Lower(x.name) # Lower(inv[p].kurs_name)
    /\ inv[1].kurs_name = inv[2].kurs_name

\* the audit reason of a call made for caller u with free-text reason
AuditReason(u, reason) ==
    LET base == <<"Aktion von ">> \o u.name \o <<" (">> \o ToStr(u.id) \o <<")">>
    IN  IF reason \in {None, <<>>} THEN base ELSE base \o <<": ">> \o reason

\* C12: every mutating call of every command carries the audit reason made of
\* the caller's name and id, followed by ": <reason>" only when a non-empty
\* reason was given.
C12_AuditReasonOnEveryMutation ==
    \A p \in Procs :
        \A i \in Events(inv[p], MutatingOps) :
            inv[p].log[i].reason = AuditReason(CallerOf(inv[p].caller), inv[p].reason)

C12_Witness ==
    \E p \in Procs :
        LET r == inv[p]
        IN  /\ r.cmd = "create-kurs" /\ r.caller = 13 /\ r.reason = <<"o", "k">>
            /\ \E i \in Events(r, {"guild.create_role"}),
                  j \in Events(r, {"guild.create_text_channel"}) :
                /\ r.log[i].reason = <<"Aktion von ", "t", " (", "1", "3", ")", ": ", "o", "k">>
                /\ r.log[j].reason = r.log[i].reason

\* what one character of a trimmed name becomes in the slug
SlugChar(c) ==
    IF c \in Range(LowerChars) \cup Range(DigitChars) \cup {"-"} THEN c
    ELSE IF c \in Range(UpperChars) THEN LowerChar(c)
    ELSE "-"

\* C13: the slug of every name is not empty, at most 90 characters long and
\* made of a-z, 0-9 and "-" only; it is "kurs" exactly when the trimmed name
\* is empty, and otherwise the trimmed name cut to 90 characters with every
\* character replaced on its own, so that runs of dashes stay as long as they
\* are.
C13_SlugifyShape ==
    probe.fn = "_slugify" =>
        LET s == probe.res
            t == Strip(probe.arg)
        IN  /\ 1 <= Len(s) /\ Len(s) <= 90
            /\ \A i \in DOMAIN s :
                s[i] \in Range(LowerChars) \cup Range(DigitChars) \cup {"-"}
            /\ t = <<>> => s = <<"k", "u", "r", "s">>
            /\ t # <<>> =>
                /\ Len(s) = IF Len(t) < 90 THEN Len(t) ELSE 90
                /\ \A i \in DOMAIN s : s[i] = SlugChar(t[i])

C13_Witness ==
    /\ probe.fn = "_slugify"
    /\ Len(Strip(probe.arg)) > 90 /\ Len(probe.res) = 90
    /\ \E i \in 1..89 : probe.res[i] = "-" /\ probe.res[i + 1] = "-"
    /\ \E i \in 1..90 : probe.res[i] = "z"

NoDuplicates(s) == \A i, j \in DOMAIN s : s[i] = s[j] => i = j

\* the ids the selectors of the enrollment commands name
NamedIds(members) ==
    CASE members = <<"<", "@", "1", ">", " ", "1", ",", "2">> -> {1, 2}
      [] members = <<"3", "\n", "<", "@", "!", "2", ">">> -> {2, 3}
      [] OTHER -> {}

\* C14: the ids of a selector are the ids of its mentions together with its
\* purely numeric tokens, each once; an enrollment command resolves every
\* named id once, fetches it remotely at most once and makes at most one role
\* call for it.
C14_EachIdOnce ==
    /\ probe.fn = "_extract_member_ids" =>
        probe.res = UNION {probe.arg.tokens[i].ids : i \in DOMAIN probe.arg.tokens}
    /\ \A p \in Procs :
        LET r == inv[p]
        IN  (r.cmd \in EnrollCmds /\ r.kurs_role # 0) =>
                /\ NoDuplicates(r.ids) /\ Range(r.ids) = NamedIds(r.members)
                /\ NoDuplicates(r.resolved) /\ Range(r.resolved) \subseteq Range(r.ids)
                /\ \A i, j \in Events(r, {"guild.fetch_member"}) :
                    r.log[i].id = r.log[j].id => i = j
                /\ \A i, j \in Events(r, EditOps) :
                    r.log[i].id = r.log[j].id => i = j

C14_Witness ==
    \E p \in Procs :
        LET r == inv[p]
        IN  /\ r.cmd = "remove-member" /\ r.pc = "done"
            /\ r.members = <<"<", "@", "1", ">", " ", "1", ",", "2">>
            /\ Cardinality({i \in Events(r, EditOps) : r.log[i].id = 1}) = 1
            /\ Cardinality(Events(r, {"guild.fetch_member"})) = 1
            /\ r.updated = <<1>>

\* seconds per unit letter as written in a duration, 0 for anything else
UnitSeconds(unit) ==
    CASE unit = <<>> -> 60
      [] unit \in {<<"s">>, <<"S">>} -> 1
      [] unit \in {<<"m">>, <<"M">>} -> 60
      [] unit \in {<<"h">>, <<"H">>} -> 3600
      [] unit \in {<<"d">>, <<"D">>} -> 86400
      [] OTHER -> 0

\* C15: a duration of one or more digits with at most one unit letter of
\* s, m, h, d in either case, blanks around it ignored, parses to the number
\* times 1, 60, 3600 or 86400 seconds, minutes without a unit; every other
\* string parses to none (-1).
C15_ParseDuration ==
    probe.fn = "_parse_duration" =>
        LET a == probe.arg
            wellFormed == a.pre = <<>> /\ a.digits.text # <<>> /\ UnitSeconds(a.unit) # 0
        IN  probe.res = IF wellFormed THEN a.digits.value * UnitSeconds(a.unit) ELSE -1

C15_Witness ==
    /\ probe.fn = "_parse_duration"
    /\ probe.arg.raw = <<"\t", " ", "4", "5", "H", "\t", " ">>
    /\ probe.res = 162000

\* a string s is a hex color body: 3 or 6 characters, all of 0-9, a-f once
\* lower-cased
HexBody(s) == Len(s) \in {3, 6} /\ \A i \in DOMAIN s : LowerChar(s[i]) \in Range(HexChars)

\* the color argument as written, without one leading '#'
Unhashed(raw) == IF raw # <<>> /\ Head(raw) = "#" THEN Tail(raw) ELSE raw

\* what is left of an enumerated color argument once the blanks around it and
\* one leading '#' are gone
ColorBody(a) == IF a.hash = <<"#", "#">> THEN <<"#">> \o a.body ELSE a.body

InvalidColorArgs == {<<"#", "g", "g", "0", "0", "0", "0">>, <<"f", "f">>}

\* create-embed with a color that does not parse sends nothing to the channel
\* and answers with the text of the error
InvalidColorSendsNothing ==
    \A p \in Procs :
        LET r == inv[p]
        IN  (/\ r.cmd = "create-embed" /\ r.channel
             /\ r.title # <<>> /\ r.description # <<>>
             /\ Len(r.title) <= 256 /\ Len(r.description) <= 4096
             /\ r.color_hex \in InvalidColorArgs) =>
                /\ r.pc \in {"reply", "done"} /\ r.rop = "send_message"
                /\ r.msg \in {"Hexfarbe muss 3 oder 6 Zeichen lang sein.",
                              "Hexfarbe enthaelt ungueltige Zeichen."}
                /\ Events(r, {"channel.send", "defer"}) = {}

\* C16 as stated: only an absent argument gives the default, and every string
\* that is not a hex body once one leading '#' is gone fails.
C16_AnyOtherInputFails ==
    /\ InvalidColorSendsNothing
    /\ probe.fn = "_parse_embed_color" =>
        LET a == probe.arg
            c == probe.res.color
            t == probe.res.twin
        IN  /\ a.raw = None => (c.ok /\ c.value = blurple)
            /\ (a.raw # None /\ ~HexBody(Unhashed(a.raw))) => ~c.ok
            /\ (a.raw # None /\ HexBody(Unhashed(a.raw))) => c.ok
            /\ (a.raw # None /\ HexBody(Unhashed(a.raw)) /\ Len(Unhashed(a.raw)) = 3) =>
                t.ok /\ t.value = c.value

\* C16 (amended): an absent or empty color gives the default color; any other
\* argument is trimmed, lower-cased and relieved of one leading '#', and then
\* parses exactly when 3 or 6 hex digits are left; the 3-digit form gives the
\* color of the 6-digit form with every digit doubled, with or without '#';
\* create-embed sends nothing to the channel when the color does not parse.
C16_EmbedColor ==
    /\ InvalidColorSendsNothing
    /\ probe.fn = "_parse_embed_color" =>
        LET a == probe.arg
            c == probe.res.color
            t == probe.res.twin
            absent == a.raw = None \/ a.raw = <<>>
        IN  /\ absent => (c.ok /\ c.value = blurple)
            /\ ~absent => (c.ok <=> HexBody(ColorBody(a)))
            /\ ~c.ok => c.error \in {"Hexfarbe muss 3 oder 6 Zeichen lang sein.",
                                     "Hexfarbe enthaelt ungueltige Zeichen."}
            /\ (~absent /\ HexBody(ColorBody(a)) /\ Len(a.body) = 3) =>
                t.ok /\ t.value = c.value

C16_Witness ==
    /\ probe.fn = "_parse_embed_color"
    /\ probe.arg.raw = <<" ", "#", "f", "A", "0", " ">>
    /\ probe.arg.twin = <<"f", "f", "A", "A", "0", "0">>
    /\ probe.res.color.value = 16755200 /\ probe.res.twin.value = 16755200

CreatedText == "Kurs **{kurs_name}** erstellt."

\* the normalized course name of the names given to create-kurs
NormalizedName(raw) ==
    CASE raw = <<" ", "m", "A", " ">> -> <<"m", "A">>
      [] raw = <<"B", " ", " ", "!">> -> <<"B", " ", "!">>
      [] OTHER -> <<>>

\* and its slug
SlugOfName(raw) ==
    CASE raw = <<" ", "m", "A", " ">> -> <<"m", "a">>
      [] raw = <<"B", " ", " ", "!">> -> <<"b", "-", "-">>
      [] OTHER -> <<"k", "u", "r", "s">>

\* the overwrites a course channel is to have
CourseOverwrites(kurs_role) ==
    {[role |-> 100, view_channel |-> "False", manage_messages |-> "None"],
     [role |-> kurs_role, view_channel |-> "True", manage_messages |-> "None"]}
    \cup {[role |-> id, view_channel |-> "True", manage_messages |-> "True"] :
            id \in {cfg.MODERATOR_ROLE_ID, cfg.TEACHER_ROLE_ID}
                   \cap {x.id : x \in roles}}

\* C17: a create-kurs that reports the course created has made exactly one
\* role and then exactly one channel: the role is mentionable and has the
\* normalized name, the channel has the slug of that name, lies in the
\* configured category, hides itself from everyone, shows itself to the course
\* role, and gives view and message management to the Moderator and the
\* Teacher role exactly when the server has that role.
C17_CreatedTriple ==
    \A p \in Procs :
        LET r == inv[p]
            made == Events(r, {"guild.create_role"})
            chan == Events(r, {"guild.create_text_channel"})
        IN  (r.cmd = "create-kurs" /\ r.msg = CreatedText) =>
                /\ Cardinality(made) = 1 /\ Cardinality(chan) = 1
                /\ \A i \in made, j \in chan :
                    /\ i < j /\ r.log[i].result = "ok" /\ r.log[j].result = "ok"
                    /\ r.log[i].name = NormalizedName(r.name)
                    /\ r.log[j].name = SlugOfName(r.name)
                /\ [id |-> r.kurs_role, name |-> NormalizedName(r.name),
                    mentionable |-> TRUE] \in roles
                /\ Cardinality({x \in roles : x.name = NormalizedName(r.name)}) = 1
                /\ [name |-> SlugOfName(r.name), category |-> cfg.KURS_CATEGORY_ID,
                    overwrites |-> CourseOverwrites(r.kurs_role)] \in channels
                /\ cfg.KURS_CATEGORY_ID \in CategoryChannels

C17_Witness ==
    \E p \in Procs :
        /\ inv[p].cmd = "create-kurs" /\ inv[p].pc = "done" /\ inv[p].msg = CreatedText
        /\ cfg.MODERATOR_ROLE_ID = 103 /\ cfg.TEACHER_ROLE_ID = 102
        /\ \E c \in channels :
            /\ c.name = <<"b", "-", "-">>
            /\ {o.role : o \in c.overwrites} = {100, 102, inv[p].kurs_role}

\* create-kurs made its role and was refused the channel
ChannelRefused(r) ==
    /\ r.cmd = "create-kurs"
    /\ \E i \in Events(r, {"guild.create_role"}) : r.log[i].result = "ok"
    /\ \E j \in Events(r, {"guild.create_text_channel"}) : r.log[j].result = "Forbidden"

\* the role of a refused channel is still there, and create-kurs has made no
\* call but its defer and its two creations
C18_RoleKept ==
    \A p \in Procs :
        ChannelRefused(inv[p]) =>
            /\ inv[p].pc = "done"
            /\ \E x \in roles : x.id = inv[p].kurs_role /\ x.name = inv[p].kurs_name
            /\ \A i \in DOMAIN inv[p].log :
                inv[p].log[i].op \in {"defer", "guild.create_role",
                                      "guild.create_text_channel"}

\* C18: when create-kurs has created its role and the channel is refused, the
\* role exists when the command ends; no step of create-kurs removes a role.
C18_NoRollback == []C18_RoleKept /\ [][\A x \in roles : x \in roles']_vars

C18_Witness ==
    \E p \in Procs :
        /\ ChannelRefused(inv[p]) /\ inv[p].pc = "done" /\ inv[p].exc = "Forbidden"
        /\ \E x \in roles : x.id = inv[p].kurs_role /\ x.name = <<"B", " ", "!">>
        /\ channels = {}

RoleNotFoundText == "Keine Kursrolle mit diesem Namen gefunden."

\* the handler of an enrollment command runs in a guild that has no role of
\* the course name given
NoSuchCourse(r) ==
    /\ r.cmd \in EnrollCmds /\ r.exc # "CheckFailure" /\ r.guild
    /\ \A x \in roles : Lower(x.name) # Lower(NormalizedName(r.name))

\* C19: add-member and remove-member given a course name that no role has
\* (compared case-insensitively after normalizing) answer that the role was
\* not found, without a deferral, a member fetch or a role call.
C19_RoleNotFoundFailsFast ==
    \A p \in Procs :
        LET r == inv[p]
        IN  NoSuchCourse(r) =>
                /\ r.pc \in {"reply", "done"}
                /\ r.rop = "send_message" /\ r.msg = RoleNotFoundText
                /\ r.kurs_role = 0 /\ r.resolved = <<>>
                /\ \A i \in DOMAIN r.log :
                    r.log[i].op = "send_message" /\ r.log[i].text = RoleNotFoundText

C19_Witness ==
    \E p \in Procs :
        LET r == inv[p]
        IN  /\ r.cmd = "remove-member" /\ r.pc = "done"
            /\ r.name = <<"B", " ", " ", "!">>
            /\ r.members = <<"3", "\n", "<", "@", "!", "2", ">">>
            /\ Len(r.log) = 1 /\ r.log[1].text = RoleNotFoundText

NobodyTexts == {"Niemand wurde hinzugefuegt (hatten evtl. schon die Rolle).",
                "Niemand wurde entfernt (hatte evtl. die Rolle nicht)."}

\* the role calls of an invocation that the platform carried out
Succeeded(r) == {i \in Events(r, EditOps) : r.log[i].result = "ok"}

\* C20: the final report of an enrollment command names as many members as
\* role calls of the invocation succeeded; it is the "N changed" report exactly
\* when at least one succeeded and the "nobody" report exactly when none did.
C20_ReportCounts ==
    \A p \in Procs :
        LET r == inv[p]
            n == Cardinality(Succeeded(r))
        IN  (r.cmd \in EnrollCmds /\ r.pc \in {"reply", "done"}
             /\ r.rop = "followup.send") =>
                /\ r.msg \in ChangedTexts \cup NobodyTexts
                /\ r.msg \in ChangedTexts <=> n >= 1
                /\ r.msg \in NobodyTexts <=> n = 0
                /\ r.msgn = n
                /\ n = 0 =>
                    \A m \in Range(r.resolved) :
                        \/ in_target_state(r.cmd, r.kurs_role, memberRoles[m])
                        \/ \E i \in Events(r, EditOps) :
                              r.log[i].id = m /\ r.log[i].result = "Forbidden"

C20_Witness ==
    \E p \in Procs :
        LET r == inv[p]
        IN  /\ r.cmd = "add-member" /\ r.pc = "done" /\ r.msgn = 1
            /\ r.msg \in ChangedTexts
            /\ Cardinality(Events(r, EditOps)) = 2
            /\ Cardinality(Succeeded(r)) = 1

CategoryUnusable == cfg.KURS_CATEGORY_ID = 0 \/ cfg.KURS_CATEGORY_ID \notin CategoryChannels

CategoryErrorText ==
    IF cfg.KURS_CATEGORY_ID = 0 THEN "Bitte KURS_CATEGORY_ID konfigurieren."
    ELSE "Die angegebene KURS_CATEGORY_ID ist keine Kategorie."

\* create-kurs got as far as the category check: it deferred and its lookup
\* found no role of the course's name
ReachedCategoryCheck(r) ==
    /\ r.cmd = "create-kurs" /\ Events(r, {"defer"}) # {}
    /\ ~\E x \in r.lookup : Lower(x.name) = Lower(r.kurs_name)

C21_Rejected ==
    \A p \in Procs :
        LET r == inv[p]
        IN  /\ (r.cmd = "create-kurs" /\ CategoryUnusable) =>
                /\ r.pc \notin {"guild.create_role", "guild.create_text_channel"}
                /\ Events(r, MutatingOps) = {}
                /\ r.kurs_role = 0
                /\ ReachedCategoryCheck(r) =>
                    /\ r.pc \in {"reply", "done"} /\ r.rop = "followup.send"
                    /\ r.msg = CategoryErrorText /\ r.exc = ""
            /\ (r.cmd = "create-kurs" /\ Events(r, MutatingOps) # {}) =>
                /\ cfg.KURS_CATEGORY_ID \in CategoryChannels
                /\ r.category = cfg.KURS_CATEGORY_ID

\* C21: create-kurs under a course category id that is unset or names no
\* category channel is rejected with the follow-up message of the category
\* check before guild.create_role: its steps leave roles and channels as they
\* are, and a create-kurs that mutated the Directory had a category.
C21_CategoryCheckFirst ==
    /\ []C21_Rejected
    /\ [][(\E p \in Procs : inv[p].cmd = "create-kurs" /\ CategoryUnusable) =>
            (roles' = roles /\ channels' = channels)]_vars

C21_Witness ==
    \E p \in Procs :
        LET r == inv[p]
        IN  /\ r.cmd = "create-kurs" /\ r.pc = "done" /\ cfg.KURS_CATEGORY_ID = 202
            /\ r.msg = "Die angegebene KURS_CATEGORY_ID ist keine Kategorie."
            /\ \E i \in DOMAIN r.log : r.log[i].op = "followup.send"
            /\ Events(r, {"defer"}) # {}

InitialOps == {"send_message", "send_modal", "defer"}

\* the calls of ops that the platform accepted
Delivered(r, ops) == {i \in Events(r, ops) : r.log[i].result = "ok"}

InvalidFormatText == "Bitte verwende ein gueltiges Format (z.B. 30m, 2h, 1d)."

\* the enumerated durations that are well formed and come to 0 seconds, and
\* those that are not well formed
ZeroDurations == {<<"0", "h">>, <<"0">>}

MalformedDurations == {<<"1", "w">>}

\* C23: timeout answers a well-formed duration of 0 seconds as it answers a
\* malformed one, with the invalid-format message and without a call of
\* member.timeout; every member.timeout call carries between 1 and
\* 2,419,200 seconds.
C23_ZeroIsInvalid ==
    \A p \in Procs :
        LET r == inv[p]
        IN  (r.cmd = "timeout" /\ r.exc # "CheckFailure") =>
                /\ r.dauer \in ZeroDurations \cup MalformedDurations =>
                    /\ r.pc \in {"reply", "done"}
                    /\ r.rop = "send_message" /\ r.msg = InvalidFormatText
                    /\ Events(r, MutatingOps) = {}
                /\ r.pc = "member.timeout" =>
                    r.seconds >= 1 /\ r.seconds <= MAX_TIMEOUT_SECONDS
                /\ \A i \in Events(r, {"member.timeout"}) :
                    /\ r.log[i].n >= 1 /\ r.log[i].n <= MAX_TIMEOUT_SECONDS
                    /\ r.dauer \notin ZeroDurations \cup MalformedDurations

C23_Witness ==
    \E p \in Procs :
        LET r == inv[p]
        IN  /\ r.cmd = "timeout" /\ r.pc = "done" /\ r.dauer = <<"0">>
            /\ r.msg = InvalidFormatText
            /\ \E i \in Events(r, {"send_message"}) : r.log[i].text = InvalidFormatText
            /\ Events(r, {"member.timeout"}) = {}

====
